---- MODULE Spec2Model ----
(***************************************************************************)
(* Model of the Flow -> TypeScript migration codemod:                      *)
(*   - the primary/worker batch orchestrator (src/typescript/run.ts),      *)
(*   - the per-file batch processors (typescript and modules pipelines),   *)
(*   - the flow type-at-pos oracle queue (src/typescript/flow_type_at_pos).*)
(***************************************************************************)
EXTENDS Integers, Sequences, FiniteSets, TLC

\* ---------------------------------------------------------------- bounds
MaxFiles == 3       \* largest corpus returned by file discovery
MaxCPUS  == 2       \* largest os.cpus().length considered
BATCH    == 2       \* run.ts: size of a file batch (scaled down from 50)

MaxParams == 2      \* most parameters of a function, and most unannotated
                    \* parameters per file considered

Files   == 1..MaxFiles
Workers == 1..MaxCPUS
Entries == Files \X (1..MaxParams)

VARIABLES
    CPUS,               \* os.cpus().length of this run
    flowFilePathsCopy,  \* the discovered files, untouched copy
    flowFilePaths,      \* the shuffled working list, popped from the end
    i,                  \* index of the spawn loop
    primary,            \* "spawning" | "serving" | "exited"
    exitCode,           \* exit status of the primary, -1 while it runs
    reports,            \* reports pushed by the 'report' handler
    finishPc,           \* finish(): "idle" | "deleting" | "merged"
    finishIdx,          \* finish(): files of flowFilePathsCopy removed so far
    timeoutId,          \* per worker: "null" | "armed" | "fired"
    toWorker,           \* per worker: messages primary -> worker, in flight
    toPrimary,          \* per worker: messages worker -> primary, in flight
    worker,             \* per worker: "none" | "alive" | "killed" | "exited"
    active,             \* per worker: batches whose promise is pending
    filePc,             \* per file: position of its async callback
    output,             \* per file: "none" | "ts" | "js", the file written
    original,           \* per file: original still on disk
    errorAt,            \* per file: where its error was raised, or "none"
    consumedBy,         \* per file: the workers that started reading it
    dispatched,         \* per file: times it was sent to a worker in a batch
    sendLog,            \* per worker: every message the primary sent
    nextCount,          \* per worker: 'next' messages the primary handled
    nParams,            \* per file: flowTypeAtPos() calls made by its traversal
    flowTypeAtPosQueue, \* per worker: the pending flowTypeAtPos() entries
    processingFlowTypeAtPosQueue,   \* per worker: the module-level flag
    inFlight,           \* per worker: entries whose external call is running
    query,              \* per entry: state of the promise flowTypeAtPos returned
    enqueued,           \* per worker: the entries in the order of their push
    oracleLog,          \* per worker: dispatch and settle events, in order
    call,               \* a function evaluated on its own: [fn, ...arguments]
    ret,                \* what that call returned or threw: [kind, ...]
    reporter            \* per worker: the fields of its MigrationReporter

vars == <<CPUS, flowFilePathsCopy, flowFilePaths, i, primary, exitCode,
          reports, finishPc, finishIdx, timeoutId, toWorker, toPrimary,
          worker, active, filePc, output, original, errorAt,
          consumedBy, dispatched, sendLog, nextCount, nParams, flowTypeAtPosQueue,
          processingFlowTypeAtPosQueue, inFlight, query, enqueued,
          oracleLog, call, ret, reporter>>

primaryVars == <<CPUS, flowFilePathsCopy, flowFilePaths, i, primary,
                 exitCode, reports, finishPc, finishIdx, timeoutId, sendLog,
                 nextCount, original, dispatched>>
fileVars    == <<filePc, output, errorAt, consumedBy>>
oracleVars  == <<nParams, flowTypeAtPosQueue, processingFlowTypeAtPosQueue,
                 inFlight, query, enqueued, oracleLog>>

evalVars    == <<call, ret, reporter>>

errored == {f \in Files : errorAt[f] # "none"}

Range(s) == {s[k] : k \in 1..Len(s)}

Shuffles(n) ==
    {p \in [1..n -> 1..n] : \A a, b \in 1..n : a # b => p[a] # p[b]}

\* ------------------------------------------------------------- popBatch
NoBatchLeft_OneLeft(q) == Len(q) <= 1

\* if (flowFilePaths.length === 0) return null
NoBatchLeft(q) == Len(q) = 0

PopBatchSize(q) == IF BATCH < Len(q) THEN BATCH ELSE Len(q)

PopBatchFiles_Front(q) == [k \in 1..PopBatchSize(q) |-> q[k]]

\* batch.push(flowFilePaths.pop()) repeated batchSize times
PopBatchFiles(q) == [k \in 1..PopBatchSize(q) |-> q[Len(q) + 1 - k]]

PopBatchRest(q) == SubSeq(q, 1, Len(q) - PopBatchSize(q))

\* ----------------------------------------------------------------- Init
InitCommon ==
    /\ CPUS \in 1..MaxCPUS
    /\ \E n \in 0..MaxFiles :
          /\ flowFilePathsCopy = [k \in 1..n |-> k]
          /\ flowFilePaths \in Shuffles(n)       \* shuffle()
    /\ i = 0
    /\ primary = "spawning"
    /\ exitCode = -1
    /\ reports = <<>>
    /\ finishPc = "idle"
    /\ finishIdx = 0
    /\ timeoutId = [w \in Workers |-> "null"]
    /\ toWorker = [w \in Workers |-> <<>>]
    /\ toPrimary = [w \in Workers |-> <<>>]
    /\ worker = [w \in Workers |-> "none"]
    /\ active = [w \in Workers |-> {}]
    /\ filePc = [f \in Files |-> "none"]
    /\ output = [f \in Files |-> "none"]
    /\ original = [f \in Files |-> f \in Range(flowFilePathsCopy)]
    /\ errorAt = [f \in Files |-> "none"]
    /\ consumedBy = [f \in Files |-> <<>>]
    /\ dispatched = [f \in Files |-> 0]
    /\ sendLog = [w \in Workers |-> <<>>]
    /\ nextCount = [w \in Workers |-> 0]
    /\ nParams = [f \in Files |-> 0]
    /\ flowTypeAtPosQueue = [w \in Workers |-> <<>>]
    /\ processingFlowTypeAtPosQueue = [w \in Workers |-> FALSE]
    /\ inFlight = [w \in Workers |-> {}]
    /\ query = [e \in Entries |-> "none"]
    /\ enqueued = [w \in Workers |-> <<>>]
    /\ oracleLog = [w \in Workers |-> <<>>]

\* no function is evaluated on its own during a run
NoCall ==
    /\ call = [fn |-> "none"]
    /\ ret = [kind |-> "none"]
    /\ reporter = [w \in Workers |-> <<>>]

Init == InitCommon /\ NoCall

\* ------------------------------------------------------- primary process
BatchMsg(batch) == [type |-> "batch", batch |-> batch]
ReportRequest   == [type |-> "report", batch |-> <<>>]
NextMsg         == [type |-> "next", report |-> 0]
ReportMsg(r)    == [type |-> "report", report |-> r]

\* sendBatch(batch) of worker w: worker.send, then (re)arm the stall timer
sendBatch(w, batch) ==
    /\ toWorker' = [toWorker EXCEPT ![w] = Append(@, BatchMsg(batch))]
    /\ sendLog' = [sendLog EXCEPT ![w] = Append(@, BatchMsg(batch))]
    /\ timeoutId' = [timeoutId EXCEPT ![w] = "armed"]
    /\ dispatched' = [f \in Files |-> dispatched[f] +
                        Cardinality({k \in 1..Len(batch) : batch[k] = f})]

\* one iteration of the spawn loop that forks a worker
Spawn ==
    /\ primary = "spawning"
    /\ i < CPUS
    /\ ~NoBatchLeft(flowFilePaths)
    /\ flowFilePaths' = PopBatchRest(flowFilePaths)
    /\ worker' = [worker EXCEPT ![i + 1] = "alive"]
    /\ sendBatch(i + 1, PopBatchFiles(flowFilePaths))
    /\ i' = i + 1
    /\ UNCHANGED <<CPUS, flowFilePathsCopy, primary, exitCode, reports,
                   finishPc, finishIdx, toPrimary, active, nextCount,
                   original>>
    /\ UNCHANGED fileVars
    /\ UNCHANGED oracleVars
    /\ UNCHANGED evalVars

\* the loop ends: i reached CPUS, or popBatch() returned null (break)
SpawnDone ==
    /\ primary = "spawning"
    /\ (i = CPUS \/ NoBatchLeft(flowFilePaths))
    /\ primary' = "serving"
    /\ UNCHANGED <<CPUS, flowFilePathsCopy, flowFilePaths, i, exitCode,
                   reports, finishPc, finishIdx, timeoutId, toWorker,
                   toPrimary, worker, active, sendLog, nextCount, original, dispatched>>
    /\ UNCHANGED fileVars
    /\ UNCHANGED oracleVars
    /\ UNCHANGED evalVars

\* worker.on('message') case 'next'
ReceiveNext(w) ==
    /\ primary = "serving"
    /\ toPrimary[w] # <<>>
    /\ Head(toPrimary[w]).type = "next"
    /\ toPrimary' = [toPrimary EXCEPT ![w] = Tail(@)]
    /\ nextCount' = [nextCount EXCEPT ![w] = @ + 1]
    /\ IF ~NoBatchLeft(flowFilePaths)
          THEN /\ flowFilePaths' = PopBatchRest(flowFilePaths)
               /\ sendBatch(w, PopBatchFiles(flowFilePaths))
          ELSE /\ toWorker' = [toWorker EXCEPT ![w] = Append(@, ReportRequest)]
               /\ sendLog' = [sendLog EXCEPT ![w] = Append(@, ReportRequest)]
               /\ timeoutId' = [timeoutId EXCEPT ![w] = "null"]
               /\ UNCHANGED <<flowFilePaths, dispatched>>
    /\ UNCHANGED <<CPUS, flowFilePathsCopy, i, primary, exitCode, reports,
                   finishPc, finishIdx, worker, active, original>>
    /\ UNCHANGED fileVars
    /\ UNCHANGED oracleVars
    /\ UNCHANGED evalVars

FinishGuard_Any(reps, workerCount) == Len(reps) >= 1

\* if (reports.length === workerCount) finish()
FinishGuard(reps, workerCount) == Len(reps) = workerCount

\* worker.on('message') case 'report'
ReceiveReport(w) ==
    /\ primary = "serving"
    /\ toPrimary[w] # <<>>
    /\ Head(toPrimary[w]).type = "report"
    /\ toPrimary' = [toPrimary EXCEPT ![w] = Tail(@)]
    /\ timeoutId' = [timeoutId EXCEPT ![w] = "null"]
    /\ reports' = Append(reports, Head(toPrimary[w]).report)
    /\ worker' = [worker EXCEPT ![w] = "killed"]
    /\ finishPc' = IF FinishGuard(reports', CPUS)
                      THEN "deleting" ELSE finishPc
    /\ UNCHANGED <<CPUS, flowFilePathsCopy, flowFilePaths, i, primary,
                   exitCode, finishIdx, toWorker, active, sendLog, nextCount,
                   original, dispatched>>
    /\ UNCHANGED fileVars
    /\ UNCHANGED oracleVars
    /\ UNCHANGED evalVars

\* finish(): await fs.remove(flowFilePath), one file of the copy at a time
FinishRemove ==
    /\ primary = "serving"
    /\ finishPc = "deleting"
    /\ finishIdx < Len(flowFilePathsCopy)
    /\ original' = [original EXCEPT ![flowFilePathsCopy[finishIdx + 1]] = FALSE]
    /\ finishIdx' = finishIdx + 1
    /\ UNCHANGED <<CPUS, flowFilePathsCopy, flowFilePaths, i, primary,
                   exitCode, reports, finishPc, timeoutId, toWorker,
                   toPrimary, worker, active, sendLog, nextCount, dispatched>>
    /\ UNCHANGED fileVars
    /\ UNCHANGED oracleVars
    /\ UNCHANGED evalVars

\* finish(): mergeReports(reports) and logReport(mergedReport)
FinishMerge ==
    /\ primary = "serving"
    /\ finishPc = "deleting"
    /\ finishIdx = Len(flowFilePathsCopy)
    /\ finishPc' = "merged"
    /\ UNCHANGED <<CPUS, flowFilePathsCopy, flowFilePaths, i, primary,
                   exitCode, reports, finishIdx, timeoutId, toWorker,
                   toPrimary, worker, active, sendLog, nextCount, original, dispatched>>
    /\ UNCHANGED fileVars
    /\ UNCHANGED oracleVars
    /\ UNCHANGED evalVars

TimerExpire_Kill(w) ==
    /\ primary = "serving"
    /\ timeoutId[w] = "armed"
    /\ timeoutId' = [timeoutId EXCEPT ![w] = "fired"]
    /\ worker' = [worker EXCEPT ![w] = "killed"]
    /\ UNCHANGED <<CPUS, flowFilePathsCopy, flowFilePaths, i, primary,
                   exitCode, reports, finishPc, finishIdx, toWorker,
                   toPrimary, active, sendLog, nextCount, original, dispatched>>
    /\ UNCHANGED fileVars
    /\ UNCHANGED oracleVars
    /\ UNCHANGED evalVars

\* the setTimeout callback of sendBatch: prints the diagnostic
TimerExpire(w) ==
    /\ primary = "serving"
    /\ timeoutId[w] = "armed"
    /\ timeoutId' = [timeoutId EXCEPT ![w] = "fired"]
    /\ UNCHANGED <<CPUS, flowFilePathsCopy, flowFilePaths, i, primary,
                   exitCode, reports, finishPc, finishIdx, toWorker,
                   toPrimary, worker, active, sendLog, nextCount, original, dispatched>>
    /\ UNCHANGED fileVars
    /\ UNCHANGED oracleVars
    /\ UNCHANGED evalVars

\* runPrimaryAsync() resolved and nothing keeps the event loop alive: no
\* live worker channel, no armed timer, no pending fs.remove.  Node exits 0;
\* process.exit(1) is reached only through runPrimaryAsync().catch.
PrimaryExit ==
    /\ primary = "serving"
    /\ \A w \in Workers : /\ worker[w] # "alive"
                           /\ timeoutId[w] # "armed"
                           /\ toPrimary[w] = <<>>
    /\ finishPc # "deleting"
    /\ primary' = "exited"
    /\ exitCode' = 0
    /\ UNCHANGED <<CPUS, flowFilePathsCopy, flowFilePaths, i, reports,
                   finishPc, finishIdx, timeoutId, toWorker, toPrimary,
                   worker, active, sendLog, nextCount, original, dispatched>>
    /\ UNCHANGED fileVars
    /\ UNCHANGED oracleVars
    /\ UNCHANGED evalVars


\* -------------------------------------------------------- worker process
\* the workers that hold file f in a batch whose promise is pending
Holders(f) == {w \in Workers : \E b \in active[w] : f \in Range(b)}

Running(f) == \E w \in Holders(f) : worker[w] = "alive"

Settled(b) == \A f \in Range(b) : filePc[f] = "done"

Rejected(b) == \E f \in Range(b) : filePc[f] = "rejected"

\* process.on('message') case 'batch': processBatchAsync(reporter, batch)
\* starts fs.readFile for every file of the batch
WorkerBatch(w) ==
    /\ worker[w] = "alive"
    /\ toWorker[w] # <<>>
    /\ Head(toWorker[w]).type = "batch"
    /\ toWorker' = [toWorker EXCEPT ![w] = Tail(@)]
    /\ active' = [active EXCEPT ![w] = @ \cup {Head(toWorker[w]).batch}]
    /\ filePc' = [f \in Files |->
                    IF f \in Range(Head(toWorker[w]).batch)
                       THEN "reading" ELSE filePc[f]]
    /\ consumedBy' = [f \in Files |->
                    IF f \in Range(Head(toWorker[w]).batch)
                       THEN Append(consumedBy[f], w) ELSE consumedBy[f]]
    /\ UNCHANGED <<output, errorAt, toPrimary, worker>>
    /\ UNCHANGED primaryVars
    /\ UNCHANGED oracleVars
    /\ UNCHANGED evalVars

\* process.on('message') case 'report': send reporter.generateReport()
WorkerReport(w) ==
    /\ worker[w] = "alive"
    /\ toWorker[w] # <<>>
    /\ Head(toWorker[w]).type = "report"
    /\ toWorker' = [toWorker EXCEPT ![w] = Tail(@)]
    /\ toPrimary' = [toPrimary EXCEPT ![w] = Append(@, ReportMsg(w))]
    /\ UNCHANGED <<active, worker>>
    /\ UNCHANGED fileVars
    /\ UNCHANGED primaryVars
    /\ UNCHANGED oracleVars
    /\ UNCHANGED evalVars

\* the batch promise resolved: () => process.send({type: 'next'})
BatchResolved(w) ==
    /\ worker[w] = "alive"
    /\ \E b \in active[w] :
          /\ Settled(b)
          /\ active' = [active EXCEPT ![w] = @ \ {b}]
    /\ toPrimary' = [toPrimary EXCEPT ![w] = Append(@, NextMsg)]
    /\ UNCHANGED <<toWorker, worker>>
    /\ UNCHANGED fileVars
    /\ UNCHANGED primaryVars
    /\ UNCHANGED oracleVars
    /\ UNCHANGED evalVars

\* the batch promise rejected: console.error(error); process.exit(1)
BatchRejected(w) ==
    /\ worker[w] = "alive"
    /\ \E b \in active[w] : Rejected(b)
    /\ worker' = [worker EXCEPT ![w] = "exited"]
    /\ UNCHANGED <<toWorker, toPrimary, active>>
    /\ UNCHANGED fileVars
    /\ UNCHANGED primaryVars
    /\ UNCHANGED oracleVars
    /\ UNCHANGED evalVars

\* ------------------------------- typescript pipeline (processBatchAsync)
CaughtPerFile_NoCatch(f, at) ==
    /\ filePc' = [filePc EXCEPT ![f] = "rejected"]
    /\ errorAt' = [errorAt EXCEPT ![f] = at]

\* catch (error) { console.error(error) } around one file of the batch
CaughtPerFile(f, at) ==
    /\ filePc' = [filePc EXCEPT ![f] = "done"]
    /\ errorAt' = [errorAt EXCEPT ![f] = at]

\* filePath.replace(/\.js$/, fileStats.hasJsx ? '.tsx' : '.ts'): the path of
\* the rewritten file, which is never the path of the original
tsFilePath(f) == "ts"

\* fs.readFile settled; on success the file is parsed and traversed.  An
\* error of the read, the parse or the traversal is raised in this one
\* continuation ("read").  The files of these runs have no unannotated
\* parameter: awaitPromises is empty, `await migrateToTypescript(...)`
\* resolves at once, the tree is printed and fs.writeFile is started.
\* (ReadAndTraverse below is the general case.)
TsReadFile(f) ==
    /\ filePc[f] = "reading"
    /\ Running(f)
    /\ \/ CaughtPerFile(f, "read")
       \/ /\ filePc' = [filePc EXCEPT ![f] = "writing"]
          /\ UNCHANGED errorAt
    /\ UNCHANGED <<output, consumedBy, toWorker, toPrimary, worker, active>>
    /\ UNCHANGED primaryVars
    /\ UNCHANGED oracleVars
    /\ UNCHANGED evalVars

\* fs.writeFile(tsFilePath, newFileText) settled
TsWriteFile(f) ==
    /\ filePc[f] = "writing"
    /\ Running(f)
    /\ \/ /\ CaughtPerFile(f, "write")
          /\ UNCHANGED output
       \/ /\ filePc' = [filePc EXCEPT ![f] = "done"]
          /\ output' = [output EXCEPT ![f] = tsFilePath(f)]
          /\ UNCHANGED errorAt
    /\ UNCHANGED <<consumedBy, toWorker, toPrimary, worker, active>>
    /\ UNCHANGED primaryVars
    /\ UNCHANGED oracleVars
    /\ UNCHANGED evalVars

Next ==
    \/ Spawn
    \/ SpawnDone
    \/ \E w \in Workers : ReceiveNext(w)
    \/ \E w \in Workers : ReceiveReport(w)
    \/ FinishRemove
    \/ FinishMerge
    \/ \E w \in Workers : TimerExpire(w)
    \/ PrimaryExit
    \/ \E w \in Workers : WorkerBatch(w)
    \/ \E w \in Workers : WorkerReport(w)
    \/ \E w \in Workers : BatchResolved(w)
    \/ \E f \in Files : TsReadFile(f)
    \/ \E f \in Files : TsWriteFile(f)

Spec == Init /\ [][Next]_vars

\* ---------------------------------- modules pipeline (processBatchAsync)
\* an error in one file rejects Promise.all: nothing catches it per file
RejectsBatch(f, at) ==
    /\ filePc' = [filePc EXCEPT ![f] = "rejected"]
    /\ errorAt' = [errorAt EXCEPT ![f] = at]

NoRejection(f) == \A w \in Holders(f) : \A b \in active[w] : ~Rejected(b)

\* fs.readFile settled; a file over 1mb is skipped; otherwise the file is
\* parsed, migrated to ES modules, printed and fs.writeFile is started
ModReadFile(f) ==
    /\ filePc[f] = "reading"
    /\ Running(f)
    /\ NoRejection(f)
    /\ \/ RejectsBatch(f, "read")
       \/ /\ filePc' = [filePc EXCEPT ![f] = "done"]      \* skippedLargeFile
          /\ UNCHANGED errorAt
       \/ /\ filePc' = [filePc EXCEPT ![f] = "writing"]
          /\ UNCHANGED errorAt
    /\ UNCHANGED <<output, consumedBy, toWorker, toPrimary, worker, active>>
    /\ UNCHANGED primaryVars
    /\ UNCHANGED oracleVars
    /\ UNCHANGED evalVars

\* fs.writeFile(tmpFilePath, newFileText) settled; tmpFilePath = filePath
ModWriteFile(f) ==
    /\ filePc[f] = "writing"
    /\ Running(f)
    /\ NoRejection(f)
    /\ \/ /\ RejectsBatch(f, "write")
          /\ UNCHANGED output
       \/ /\ filePc' = [filePc EXCEPT ![f] = "done"]
          /\ output' = [output EXCEPT ![f] = "js"]
          /\ UNCHANGED errorAt
    /\ UNCHANGED <<consumedBy, toWorker, toPrimary, worker, active>>
    /\ UNCHANGED primaryVars
    /\ UNCHANGED oracleVars
    /\ UNCHANGED evalVars

NextModules ==
    \/ Spawn
    \/ SpawnDone
    \/ \E w \in Workers : ReceiveNext(w)
    \/ \E w \in Workers : ReceiveReport(w)
    \/ FinishRemove
    \/ FinishMerge
    \/ \E w \in Workers : TimerExpire(w)
    \/ PrimaryExit
    \/ \E w \in Workers : WorkerBatch(w)
    \/ \E w \in Workers : WorkerReport(w)
    \/ \E w \in Workers : BatchResolved(w)
    \/ \E w \in Workers : BatchRejected(w)
    \/ \E f \in Files : ModReadFile(f)
    \/ \E f \in Files : ModWriteFile(f)

SpecModules == Init /\ [][NextModules]_vars

\* ------------------------------------------------- flow type-at-pos queue
MaxOracleFiles == 2     \* largest corpus of the runs that model the queue
MaxQueries == 3         \* most flowTypeAtPos() calls considered in one run

\* the module-level state of flow_type_at_pos.ts in worker w
Q(w) == [queue      |-> flowTypeAtPosQueue[w],
         processing |-> processingFlowTypeAtPosQueue[w],
         inFlight   |-> inFlight[w],
         enq        |-> enqueued[w],
         log        |-> oracleLog[w]]

SetQ(w, q) ==
    /\ flowTypeAtPosQueue' = [flowTypeAtPosQueue EXCEPT ![w] = q.queue]
    /\ processingFlowTypeAtPosQueue' =
           [processingFlowTypeAtPosQueue EXCEPT ![w] = q.processing]
    /\ inFlight' = [inFlight EXCEPT ![w] = q.inFlight]
    /\ enqueued' = [enqueued EXCEPT ![w] = q.enq]
    /\ oracleLog' = [oracleLog EXCEPT ![w] = q.log]

ProcessQueue_Lifo(q) ==
    IF q.queue = <<>>
       THEN [q EXCEPT !.processing = FALSE]
       ELSE [q EXCEPT !.processing = TRUE,
                      !.queue = SubSeq(@, 1, Len(@) - 1),
                      !.inFlight = @ \cup {q.queue[Len(q.queue)]},
                      !.log = Append(@, <<"dispatch", q.queue[Len(q.queue)]>>)]

\* processFlowTypeAtPosQueue(): shift the first entry and start its external
\* call, or clear the flag when the queue is empty
ProcessQueue(q) ==
    IF q.queue = <<>>
       THEN [q EXCEPT !.processing = FALSE]
       ELSE [q EXCEPT !.processing = TRUE,
                      !.queue = Tail(@),
                      !.inFlight = @ \cup {Head(q.queue)},
                      !.log = Append(@, <<"dispatch", Head(q.queue)>>)]

Pushed(q, e) == [q EXCEPT !.queue = Append(@, e), !.enq = Append(@, e)]

FlowTypeAtPos_NoGuard(q, e) == ProcessQueue(Pushed(q, e))

\* flowTypeAtPos(filePath, location): push the entry; start the queue only
\* if it is not being processed
FlowTypeAtPos(q, e) ==
    IF Pushed(q, e).processing = FALSE
       THEN ProcessQueue(Pushed(q, e))
       ELSE Pushed(q, e)

\* annotateParamsWithFlowTypeAtPos over the k unannotated parameters that the
\* traversal of file f meets, in order
RECURSIVE AnnotateParams(_, _, _)
AnnotateParams(q, f, k) ==
    IF k = 0 THEN q
    ELSE FlowTypeAtPos(AnnotateParams(q, f, k - 1), <<f, k>>)

QueriesOf(f) == {f} \X (1..nParams[f])

\* flowTypeAtPos() calls made so far
RECURSIVE Calls(_)
Calls(fs) ==
    IF fs = {} THEN 0
    ELSE LET f == CHOOSE x \in fs : TRUE IN nParams[f] + Calls(fs \ {f})

AfterTraversal_NoAwait(k) == "writing"

\* await migrateToTypescript(...), that is Promise.all(awaitPromises) over the
\* k queries of the file: with none the file goes on to recast.print and
\* fs.writeFile at once, otherwise it waits
AfterTraversal(k) == IF k = 0 THEN "writing" ELSE "migrating"

\* fs.readFile settled.  On success the file is parsed and traversed: the
\* traversal calls flowTypeAtPos for k parameters and may then throw; if it
\* returns, the file awaits Promise.all(awaitPromises), which with no query
\* resolves at once, so the tree is printed and fs.writeFile started.
ReadAndTraverse(w, f) ==
    /\ filePc[f] = "reading"
    /\ worker[w] = "alive"
    /\ w \in Holders(f)
    /\ \/ /\ CaughtPerFile(f, "read")
          /\ UNCHANGED oracleVars
       \/ \E k \in 0..MaxParams :
            /\ Calls(Files) + k <= MaxQueries
            /\ nParams' = [nParams EXCEPT ![f] = k]
            /\ query' = [e \in Entries |->
                           IF e[1] = f /\ e[2] <= k THEN "pending" ELSE query[e]]
            /\ SetQ(w, AnnotateParams(Q(w), f, k))
            /\ \/ CaughtPerFile(f, "traverse")
               \/ /\ filePc' = [filePc EXCEPT ![f] = AfterTraversal(k)]
                  /\ UNCHANGED errorAt
    /\ UNCHANGED <<output, consumedBy, toWorker, toPrimary, worker, active>>
    /\ UNCHANGED primaryVars
    /\ UNCHANGED evalVars

\* the promise of flowTypeAtPos rejects when the external command fails
\* (entry.reject) and when processFlowTypeAtPosStdout throws on an answer
\* that does not parse; otherwise it resolves, to a type or to null
Outcomes == {"resolved", "rejected"}

Completed_Stalled(q, e) ==
    [q EXCEPT !.inFlight = @ \ {e}, !.log = Append(@, <<"settle", e>>)]

Completed_ResolveFirst(q, e) ==
    ProcessQueue([q EXCEPT !.inFlight = @ \ {e},
                           !.log = Append(@, <<"settle", e>>)])

\* the callbacks given to executeFlowTypeAtPos(...).then: the next entry is
\* started by processFlowTypeAtPosQueue() first, entry.resolve(value) or
\* entry.reject(value) comes second
Completed(q, e) ==
    [ProcessQueue([q EXCEPT !.inFlight = @ \ {e}])
        EXCEPT !.log = Append(@, <<"settle", e>>)]

\* the external call of entry e completed.  processFlowTypeAtPosQueue() runs
\* before entry.resolve / entry.reject; then processFlowTypeAtPosStdout and the
\* continuation of annotateParamsWithFlowTypeAtPos run, and with them the
\* continuation of the file once Promise.all settles.
ExecSettled(w, e) ==
    /\ worker[w] = "alive"
    /\ e \in inFlight[w]
    /\ \E result \in Outcomes :
        /\ SetQ(w, Completed(Q(w), e))
        /\ query' = [query EXCEPT ![e] = result]
        /\ IF filePc[e[1]] # "migrating"
              THEN UNCHANGED <<filePc, errorAt>>
              ELSE IF result = "rejected"
                THEN CaughtPerFile(e[1], "await")
                ELSE /\ filePc' = [filePc EXCEPT ![e[1]] =
                          IF \A o \in QueriesOf(e[1]) \ {e} :
                                 query[o] = "resolved"
                             THEN "writing" ELSE "migrating"]
                     /\ UNCHANGED errorAt
    /\ UNCHANGED <<nParams, output, consumedBy, toWorker, toPrimary, worker,
                   active>>
    /\ UNCHANGED primaryVars
    /\ UNCHANGED evalVars

\* a run with one CPU; the outcome of shuffle() is fixed to the identity, as
\* the worker and the queue treat all file paths alike
InitOracle ==
    /\ InitCommon
    /\ NoCall
    /\ CPUS = 1
    /\ Len(flowFilePathsCopy) <= MaxOracleFiles
    /\ flowFilePaths = flowFilePathsCopy

\* one worker's session, from the spawn loop to the sending of its report
NextOracle ==
    \/ Spawn
    \/ SpawnDone
    \/ \E w \in Workers : ReceiveNext(w)
    \/ \E w \in Workers : WorkerBatch(w)
    \/ \E w \in Workers : WorkerReport(w)
    \/ \E w \in Workers : BatchResolved(w)
    \/ \E w \in Workers : \E f \in Files : ReadAndTraverse(w, f)
    \/ \E w \in Workers : \E e \in Entries : ExecSettled(w, e)
    \/ \E f \in Files : TsWriteFile(f)

SpecOracle == InitOracle /\ [][NextOracle]_vars

\* ------------------------------------------------ functions on their own
\* the run variables of a process in which no run is under way
NoRun ==
    /\ InitCommon
    /\ CPUS = 1
    /\ flowFilePathsCopy = <<>>
    /\ flowFilePaths = <<>>

\* ------------------------------------------- processFlowTypeAtPosStdout
\* texts are sequences of characters
Rep(c, n) == [k \in 1..n |-> c]

EndsWith(s, suffix) ==
    /\ Len(s) >= Len(suffix)
    /\ SubSeq(s, Len(s) - Len(suffix) + 1, Len(s)) = suffix

Unknown  == <<"(", "u", "n", "k", "n", "o", "w", "n", ")">>
Implicit == <<" ", "(", "i", "m", "p", "l", "i", "c", "i", "t", ")">>
Explicit == <<" ", "(", "e", "x", "p", "l", "i", "c", "i", "t", ")">>

TooBig == 100       \* flowTypeString.length >= 100
MaxOver == 2        \* longest type text considered: TooBig + MaxOver

\* stdout.split('\n', 2)[0]
FirstLine(s) ==
    LET breaks == {k \in 1..Len(s) : s[k] = "\n"}
    IN  IF breaks = {} THEN s
        ELSE SubSeq(s, 1, (CHOOSE k \in breaks : \A o \in breaks : k <= o) - 1)

\* .replace(/ \((implicit|explicit)\)$/, '')
StripQualifier(s) ==
    IF EndsWith(s, Implicit) \/ EndsWith(s, Explicit)
       THEN SubSeq(s, 1, Len(s) - Len(Implicit))
       ELSE s

\* parse(`type T = ${flowTypeString}`, {plugins: ['flow']}) and the right
\* side of the alias: of the texts considered, a name (one or more letters)
\* is a type and parses, any other text is a syntax error that parse throws
IsName(s) == s # <<>> /\ \A k \in 1..Len(s) : s[k] = "a"

ParseFlowType(s) ==
    IF IsName(s) THEN [kind |-> "type", text |-> s]
                 ELSE [kind |-> "throw", error |-> "SyntaxError"]

IsTooBig_Gt(s) == Len(s) > TooBig

IsTooBig(s) == Len(s) >= TooBig

processFlowTypeAtPosStdout(stdout) ==
    LET flowTypeString == StripQualifier(FirstLine(stdout))
    IN  IF flowTypeString = Unknown THEN [kind |-> "null"]
        ELSE IF IsTooBig(flowTypeString) THEN [kind |-> "null"]
        ELSE ParseFlowType(flowTypeString)

\* the answers considered: a type text, an optional qualifier, and optional
\* further lines (the location lines flow prints after the type)
TypeTexts ==
    {Rep("a", n) : n \in 0..(TooBig + MaxOver)}
        \cup {Rep("a", n) \o <<"(">> : n \in 0..(TooBig + MaxOver)}
        \cup {Unknown}

Qualifiers == {<<>>, Implicit, Explicit}

MoreLines == {<<>>, <<"\n">>, <<"\n", "a", ":", "1", "\n">>}

InitStdout ==
    /\ NoRun
    /\ \E text \in TypeTexts : \E qualifier \in Qualifiers : \E more \in MoreLines :
          call = [fn |-> "processFlowTypeAtPosStdout",
                  text |-> text,
                  stdout |-> text \o qualifier \o more]
    /\ ret = [kind |-> "none"]
    /\ reporter = [w \in Workers |-> <<>>]

EvalStdout ==
    /\ call.fn = "processFlowTypeAtPosStdout"
    /\ ret.kind = "none"
    /\ ret' = processFlowTypeAtPosStdout(call.stdout)
    /\ UNCHANGED <<call, reporter, primaryVars, fileVars, oracleVars,
                   toWorker, toPrimary, worker, active>>

NextStdout == EvalStdout

SpecStdout == InitStdout /\ [][NextStdout]_vars

\* ---------------------------------------------------- MigrationReporter
MaxFindings == 2    \* most reporter calls considered over all workers

\* a path is the sequence of its segments; a Location is
\* <<filePath, line, column>>
CWD         == <<"repo">>
Locations   == {<< <<"repo", "a.js">>, 1, 0>>, << <<"repo", "src", "b.js">>, 2, 4>>}
ModulePaths == {<<"repo", "m.js">>, <<"lib", "n.js">>}

\* the categories whose arrays the reporter pushes on
ArrayCategories ==
    {"skippedLargeFiles", "requireNotCalled", "requireOtherThanString",
     "cannotFindModule", "moduleNotExportAssignment", "importAfterSideEffects"}

\* what the reporter method of an array category pushes
Pushable(k) ==
    IF k = "skippedLargeFiles" THEN {loc[1] : loc \in Locations}
    ELSE IF k = "cannotFindModule"
         THEN {[moduleId |-> "x", location |-> loc] : loc \in Locations}
    ELSE Locations

\* new MigrationReporter(): empty arrays, an empty Map and an empty Set (a
\* Map and a Set are kept as the sequence of their insertion order)
NewReporter ==
    [skippedLargeFiles |-> <<>>, requireNotCalled |-> <<>>,
     requireOtherThanString |-> <<>>, cannotFindModule |-> <<>>,
     moduleNotExportAssignment |-> <<>>, requireWasDestructed |-> <<>>,
     unableToLoadExternalModule |-> <<>>, importAfterSideEffects |-> <<>>]

\* Map.get(key) || 0
MapGet(m, key) ==
    IF \E k \in 1..Len(m) : m[k].modulePath = key
       THEN m[CHOOSE k \in 1..Len(m) : m[k].modulePath = key].count
       ELSE 0

\* Map.set(key, count): a present key keeps its place
MapSet(m, key, count) ==
    IF \E k \in 1..Len(m) : m[k].modulePath = key
       THEN [k \in 1..Len(m) |->
                IF m[k].modulePath = key
                   THEN [modulePath |-> key, count |-> count] ELSE m[k]]
       ELSE Append(m, [modulePath |-> key, count |-> count])

\* Set.add(x)
SetAdd(s, x) == IF x \in Range(s) THEN s ELSE Append(s, x)

\* generateReport(): the arrays themselves, Array.from(Map), Array.from(Set)
generateReport(r) == r

mergeArrays_Reset(k, os) == IF os = <<>> THEN <<>> ELSE os[Len(os)][k]

\* mergeArrays(k, os): every element of o[k] for each o of os, in order
RECURSIVE mergeArrays(_, _)
mergeArrays(k, os) ==
    IF os = <<>> THEN <<>> ELSE Head(os)[k] \o mergeArrays(k, Tail(os))

RECURSIVE SumInto_Overwrite(_, _)
SumInto_Overwrite(m, entries) ==
    IF entries = <<>> THEN m
    ELSE SumInto_Overwrite(MapSet(m, Head(entries).modulePath, Head(entries).count),
                           Tail(entries))

\* the loops over report.requireWasDestructed of every report:
\* set(modulePath, (get(modulePath) || 0) + count)
RECURSIVE SumInto(_, _)
SumInto(m, entries) ==
    IF entries = <<>> THEN m
    ELSE SumInto(MapSet(m, Head(entries).modulePath,
                        MapGet(m, Head(entries).modulePath) + Head(entries).count),
                 Tail(entries))

RECURSIVE AddAll(_, _)
AddAll(s, xs) == IF xs = <<>> THEN s ELSE AddAll(SetAdd(s, Head(xs)), Tail(xs))

\* MigrationReporter.mergeReports(reports)
mergeReports(rs) ==
    [skippedLargeFiles |-> mergeArrays("skippedLargeFiles", rs),
     requireNotCalled |-> mergeArrays("requireNotCalled", rs),
     requireOtherThanString |-> mergeArrays("requireOtherThanString", rs),
     cannotFindModule |-> mergeArrays("cannotFindModule", rs),
     moduleNotExportAssignment |-> mergeArrays("moduleNotExportAssignment", rs),
     requireWasDestructed |->
         SumInto(<<>>, mergeArrays("requireWasDestructed", rs)),
     unableToLoadExternalModule |->
         AddAll(<<>>, mergeArrays("unableToLoadExternalModule", rs)),
     importAfterSideEffects |-> mergeArrays("importAfterSideEffects", rs)]

\* the workers whose report the primary holds
Sent == Range(call.from)

InitReport ==
    /\ NoRun
    /\ reporter = [w \in Workers |-> NewReporter]
    /\ call = [fn |-> "mergeReports", reports |-> <<>>, from |-> <<>>,
               findings |-> 0]
    /\ ret = [kind |-> "none"]

\* skippedLargeFile, requireNotCalled, requireOtherThanString,
\* cannotFindModule, moduleNotExportAssignment, importAfterSideEffects
PushFinding(w, k, x) ==
    /\ w \notin Sent
    /\ call.findings < MaxFindings
    /\ call' = [call EXCEPT !.findings = @ + 1]
    /\ reporter' = [reporter EXCEPT ![w][k] = Append(@, x)]
    /\ UNCHANGED ret

RequireWasDestructed(w, modulePath) ==
    /\ w \notin Sent
    /\ call.findings < MaxFindings
    /\ call' = [call EXCEPT !.findings = @ + 1]
    /\ reporter' = [reporter EXCEPT ![w].requireWasDestructed =
                       MapSet(@, modulePath, MapGet(@, modulePath) + 1)]
    /\ UNCHANGED ret

UnableToLoadExternalModule(w, modulePath) ==
    /\ w \notin Sent
    /\ call.findings < MaxFindings
    /\ call' = [call EXCEPT !.findings = @ + 1]
    /\ reporter' = [reporter EXCEPT ![w].unableToLoadExternalModule =
                       SetAdd(@, modulePath)]
    /\ UNCHANGED ret

\* a worker answers 'report' with reporter.generateReport() and the primary
\* pushes it on the list that finish() gives to mergeReports
SendReport(w) ==
    /\ w \notin Sent
    /\ call' = [call EXCEPT !.reports = Append(@, generateReport(reporter[w])),
                            !.from = Append(@, w)]
    /\ UNCHANGED <<ret, reporter>>

\* finish(): MigrationReporter.mergeReports(reports)
MergeReports ==
    /\ Sent = Workers
    /\ ret.kind = "none"
    /\ ret' = [kind |-> "report", report |-> mergeReports(call.reports)]
    /\ UNCHANGED <<call, reporter>>

NextReport ==
    /\ \/ \E w \in Workers : \E k \in ArrayCategories : \E x \in Pushable(k) :
              PushFinding(w, k, x)
       \/ \E w \in Workers : \E p \in ModulePaths : RequireWasDestructed(w, p)
       \/ \E w \in Workers : \E p \in ModulePaths :
              UnableToLoadExternalModule(w, p)
       \/ \E w \in Workers : SendReport(w)
       \/ MergeReports
    /\ UNCHANGED <<primaryVars, fileVars, oracleVars, toWorker, toPrimary,
                   worker, active>>

SpecReport == InitReport /\ [][NextReport]_vars

\* ------------------------------------------- MigrationReporter.logReport
\* path.relative(from, to): up from `from` to the common directory, then
\* down to `to`
CommonLen(a, b) ==
    CHOOSE n \in 0..Len(a) :
        /\ n <= Len(b)
        /\ \A k \in 1..n : a[k] = b[k]
        /\ n < Len(a) /\ n < Len(b) => a[n + 1] # b[n + 1]

Relative(from, to) ==
    [k \in 1..(Len(from) - CommonLen(from, to)) |-> ".."]
        \o SubSeq(to, CommonLen(from, to) + 1, Len(to))

\* `${path.relative(CWD, filePath)}:${start.line}:${start.column}`
displayLocation(location) ==
    <<Relative(CWD, location[1]), ":", location[2], ":", location[3]>>

\* the categories for which logReport consults an allowlist, and the one
\* named by the block that is commented out
AllowlistCategories ==
    {"requireNotCalled", "requireOtherThanString", "cannotFindModule",
     "moduleNotExportAssignment", "importAfterSideEffects"}

NoAllowlists == [k \in AllowlistCategories |-> {}]

Has_RequireNotCalled(allowlists, k, location) ==
    location \in allowlists["requireNotCalled"]

\* allowlists.<k>.has(location)
Has(allowlists, k, location) == location \in allowlists[k]

MapSeq(xs, F(_)) == [n \in 1..Len(xs) |-> F(xs[n])]

\* .map(location => displayLocation(location))
\* .filter(location => !allowlists.<k>.has(location))
Displayed(allowlists, k, locations) ==
    LET Keep(location) == ~Has(allowlists, k, location)
    IN  SelectSeq(MapSeq(locations, displayLocation), Keep)

\* one block of logReport: nothing when there is no line, otherwise an
\* empty line, the heading and a bullet per line
Block(k, heading, lines) ==
    IF Len(lines) > 0
       THEN << [category |-> k, heading |-> heading, lines |-> lines] >>
       ELSE <<>>

\* MigrationReporter.logReport(report): what it prints, block after block
logReport(report, allowlists) ==
    LET RelativeToCwd(filePath) == Relative(CWD, filePath)
        DisplayedModule(x) ==
            [moduleId |-> x.moduleId, location |-> displayLocation(x.location)]
        KeepModule(x) == ~Has(allowlists, "cannotFindModule", x.location)
    IN  Block("skippedLargeFiles", "Skipped large files:",
              MapSeq(report.skippedLargeFiles, RelativeToCwd))
        \o Block("requireNotCalled", "Require not called:",
                 Displayed(allowlists, "requireNotCalled", report.requireNotCalled))
        \o Block("requireOtherThanString",
                 "Required something other than a string:",
                 Displayed(allowlists, "requireOtherThanString",
                           report.requireOtherThanString))
        \o Block("cannotFindModule", "Required something other than a string:",
                 SelectSeq(MapSeq(report.cannotFindModule, DisplayedModule),
                           KeepModule))
        \o Block("moduleNotExportAssignment",
                 "Module reference is not an exports assignment:",
                 Displayed(allowlists, "moduleNotExportAssignment",
                           report.moduleNotExportAssignment))
        \o Block("unableToLoadExternalModule", "Unable to load external module:",
                 MapSeq(report.unableToLoadExternalModule, RelativeToCwd))

\* the strings an allowlist can hold for the locations considered
DisplayLocations == {displayLocation(location) : location \in Locations}

\* the allowlists are module constants, curated by hand: those considered
\* have entries for one category
InitLog ==
    /\ NoRun
    /\ reporter = [w \in Workers |-> NewReporter]
    /\ \E k \in AllowlistCategories : \E entries \in SUBSET DisplayLocations :
          call = [fn |-> "logReport", reports |-> <<>>, from |-> <<>>,
                  findings |-> 0,
                  allowlists |-> [NoAllowlists EXCEPT ![k] = entries]]
    /\ ret = [kind |-> "none"]

\* finish(): MigrationReporter.logReport(mergedReport), for the report of
\* one reporter
LogReport ==
    /\ call.fn = "logReport"
    /\ ret.kind = "none"
    /\ ret' = [kind |-> "printed",
               report |-> generateReport(reporter[1]),
               blocks |-> logReport(generateReport(reporter[1]), call.allowlists)]
    /\ UNCHANGED <<call, reporter>>

NextLog ==
    /\ ret.kind = "none"
    /\ \/ \E k \in ArrayCategories : \E x \in Pushable(k) : PushFinding(1, k, x)
       \/ \E p \in ModulePaths : RequireWasDestructed(1, p)
       \/ \E p \in ModulePaths : UnableToLoadExternalModule(1, p)
       \/ LogReport
    /\ UNCHANGED <<primaryVars, fileVars, oracleVars, toWorker, toPrimary,
                   worker, active>>

SpecLog == InitLog /\ [][NextLog]_vars

\* ----------------------------------------------------------- migrateType
\* AST nodes are records with a field `type`; null is the node Null; what a
\* function throws is the node Throw(message)
Null == [type |-> "null"]

Throw(message) == [type |-> "throw", message |-> message]

Thrown(node) == node.type = "throw"

\* the result of a computation over the nodes rs: the first error thrown
\* while computing them, if any
Try(rs, result) ==
    IF \E k \in 1..Len(rs) : Thrown(rs[k])
       THEN rs[CHOOSE k \in 1..Len(rs) :
                  Thrown(rs[k]) /\ \A o \in 1..(k - 1) : ~Thrown(rs[o])]
       ELSE result

Identifier(name) == [type |-> "Identifier", name |-> name]

tsIdentifier(name, optional, typeAnnotation) ==
    [type |-> "Identifier", name |-> name, optional |-> optional,
     typeAnnotation |-> typeAnnotation]

tsTypeAnnotation(typeAnnotation) ==
    [type |-> "TSTypeAnnotation", typeAnnotation |-> typeAnnotation]

tsTypeReference(typeName, typeParameters) ==
    [type |-> "TSTypeReference", typeName |-> typeName,
     typeParameters |-> typeParameters]

tsQualifiedName(left, right) ==
    [type |-> "TSQualifiedName", left |-> left, right |-> right]

tsTypeParameterInstantiation(params) ==
    [type |-> "TSTypeParameterInstantiation", params |-> params]

\* migrateQualifiedIdentifier(identifier)
RECURSIVE migrateQualifiedIdentifier(_)
migrateQualifiedIdentifier(identifier) ==
    IF identifier.type = "Identifier" THEN identifier
    ELSE tsQualifiedName(migrateQualifiedIdentifier(identifier.qualification),
                         identifier.id)

\* Function types are wrapped in parentheses inside intersections and unions
Parenthesized(tsMemberType) ==
    IF tsMemberType.type = "TSFunctionType"
       THEN [type |-> "TSParenthesizedType", typeAnnotation |-> tsMemberType]
       ELSE tsMemberType

\* case 'GenericTypeAnnotation', once the id and the type arguments are
\* migrated (params is Null without type arguments)
GenericType(id, params) ==
    LET n == IF params = Null THEN 0 ELSE Len(params.params)
        IsNamed(name) == id.type = "Identifier" /\ id.name = name
        IsReact(name) ==
            /\ id.type = "TSQualifiedName"
            /\ id.left.type = "Identifier" /\ id.left.name = "React"
            /\ id.right.type = "Identifier" /\ id.right.name = name
        React(name) == tsQualifiedName(Identifier("React"), Identifier(name))
    IN  IF IsNamed("Object") /\ params = Null
           THEN tsTypeReference(Identifier("FlowAnyObject"), Null)
        ELSE IF IsNamed("Function") /\ params = Null
           THEN tsTypeReference(Identifier("FlowAnyFunction"), Null)
        ELSE IF IsNamed("$ReadOnlyArray") /\ n = 1
           THEN tsTypeReference(Identifier("ReadonlyArray"), params)
        ELSE IF IsNamed("$ReadOnly") /\ n = 1
           THEN tsTypeReference(Identifier("Readonly"), params)
        ELSE IF IsNamed("$Keys") /\ n = 1
           THEN [type |-> "TSTypeOperator", operator |-> "keyof",
                 typeAnnotation |-> params.params[1]]
        ELSE IF IsNamed("$Values") /\ n = 1
           THEN tsTypeReference(
                    tsQualifiedName(Identifier("h"), Identifier("ObjectValues")),
                    params)
        ELSE IF IsNamed("$Shape") /\ n = 1
           THEN tsTypeReference(Identifier("Partial"), params)
        ELSE IF IsNamed("$Subtype") /\ n = 1
           THEN tsTypeReference(Identifier("FlowAnySubtype"), params)
        ELSE IF (IsNamed("$PropertyType") \/ IsNamed("$ElementType")) /\ n = 2
           THEN [type |-> "TSIndexedAccessType", objectType |-> params.params[1],
                 indexType |-> params.params[2]]
        ELSE IF IsReact("Node") /\ params = Null
           THEN tsTypeReference(React("ReactNode"), Null)
        ELSE IF IsReact("Element") /\ n = 1
           THEN IF \/ params.params[1].type = "TSAnyKeyword"
                   \/ /\ params.params[1].type = "TSTypeReference"
                      /\ params.params[1].typeName.type = "Identifier"
                      /\ params.params[1].typeName.name = "FlowAnyExistential"
                   THEN tsTypeReference(React("ReactElement"), params)
                   ELSE tsTypeReference(
                            React("ReactElement"),
                            tsTypeParameterInstantiation(<<
                                tsTypeReference(React("ComponentProps"), params) >>))
        ELSE tsTypeReference(id, params)

\* flowMembers.sort((a, b) => a.loc.start.line - b.loc.start.line): members
\* of the same line keep the order they have in the combined array
SortByLine(ms) ==
    LET Insert(sorted, m) ==
            LET p == Cardinality({j \in 1..Len(sorted) : sorted[j].line <= m.line})
            IN  SubSeq(sorted, 1, p) \o <<m>> \o SubSeq(sorted, p + 1, Len(sorted))
        Sorted[k \in 0..Len(ms)] ==
            IF k = 0 THEN <<>> ELSE Insert(Sorted[k - 1], ms[k])
    IN  Sorted[Len(ms)]

\* case 'ObjectTypeAnnotation', once the sorted members are migrated. The
\* loop: a spread is a reference of its own, a member joins the last
\* literal or starts a new one. Then a literal whose only member is an
\* indexer keyed by neither string nor number becomes h.ObjectMap<K, V>
ObjectType(flowMembers, tsMembers) ==
    LET Push(acc, flowMember, tsMember) ==
            IF flowMember.type = "ObjectTypeSpreadProperty"
               THEN Append(acc, [kind |-> "reference",
                                 type |-> [type |-> "TSParenthesizedType",
                                           typeAnnotation |-> tsMember]])
            ELSE IF acc # <<>> /\ acc[Len(acc)].kind = "literal"
               THEN [acc EXCEPT ![Len(acc)].members = Append(@, tsMember)]
            ELSE Append(acc, [kind |-> "literal", members |-> <<tsMember>>])
        Loop[k \in 0..Len(flowMembers)] ==
            IF k = 0 THEN <<>>
            ELSE Push(Loop[k - 1], flowMembers[k], tsMembers[k])
        intersectionTypes == Loop[Len(flowMembers)]
        Member(intersectionType) ==
            IF intersectionType.kind = "literal"
               THEN LET onlyMember == intersectionType.members[1]
                        indexType == onlyMember.parameters[1].typeAnnotation
                    IN  IF /\ Len(intersectionType.members) = 1
                           /\ onlyMember.type = "TSIndexSignature"
                           /\ indexType.typeAnnotation.type # "TSStringKeyword"
                           /\ indexType.typeAnnotation.type # "TSNumberKeyword"
                           THEN tsTypeReference(
                                    tsQualifiedName(Identifier("h"),
                                                    Identifier("ObjectMap")),
                                    tsTypeParameterInstantiation(<<
                                        indexType.typeAnnotation,
                                        onlyMember.typeAnnotation.typeAnnotation >>))
                           ELSE [type |-> "TSTypeLiteral",
                                 members |-> intersectionType.members]
               ELSE intersectionType.type
        types == [k \in 1..Len(intersectionTypes) |-> Member(intersectionTypes[k])]
    IN  IF Len(intersectionTypes) = 0
           THEN [type |-> "TSTypeLiteral", members |-> <<>>]
        ELSE IF Len(types) = 1 THEN types[1]
        ELSE [type |-> "TSIntersectionType", types |-> types]

\* the default branch of the switch over flowType.type
Unexpected_PassThrough(flowType) == flowType

Unexpected(flowType) == Throw(<<"Unexpected AST node", flowType.type>>)

Readonly(variance) == IF variance = Null THEN Null ELSE variance.kind = "plus"

\* case 'UnionTypeAnnotation': anyMemberIndex starts as null and is only
\* assigned when it is not null
UnionType(tsTypes) ==
    LET anyMemberIndex == Null
        tsUnionType == [type |-> "TSUnionType",
                        types |-> [k \in 1..Len(tsTypes) |->
                                       Parenthesized(tsTypes[k])]]
    IN  IF anyMemberIndex # Null THEN tsUnionType.types[anyMemberIndex]
        ELSE tsUnionType

RECURSIVE migrateType(_)
RECURSIVE migrateObjectMember(_)
RECURSIVE migrateTypeParameterDeclaration(_)

\* migrateTypeParameterInstantiation(reporter, filePath, flowTypeParameters)
migrateTypeParameterInstantiation(flowTypeParameters) ==
    LET params == [k \in 1..Len(flowTypeParameters.params) |->
                       migrateType(flowTypeParameters.params[k])]
    IN  Try(params, tsTypeParameterInstantiation(params))

\* case 'FunctionTypeAnnotation': a parameter without a name is called
\* argN, a rest element without a name is called rest
FunctionType(flowType) ==
    LET Param(flowParam, n) ==
            LET tsType == migrateType(flowParam.typeAnnotation)
            IN  Try(<<tsType>>,
                    tsIdentifier(IF flowParam.name # Null THEN flowParam.name.name
                                 ELSE <<"arg", n>>,
                                 flowParam.optional, tsTypeAnnotation(tsType)))
        Rest(rest) ==
            LET tsType == migrateType(rest.typeAnnotation)
            IN  Try(<<tsType>>,
                    [type |-> "RestElement",
                     argument |-> IF rest.name # Null THEN rest.name
                                  ELSE Identifier("rest"),
                     typeAnnotation |-> tsTypeAnnotation(tsType)])
        typeParams == IF flowType.typeParameters # Null
                         THEN migrateTypeParameterDeclaration(flowType.typeParameters)
                         ELSE Null
        params == [n \in 1..Len(flowType.params) |-> Param(flowType.params[n], n)]
        withRest == IF flowType.rest # Null
                       THEN Append(params, Rest(flowType.rest))
                       ELSE params
        returnType == migrateType(flowType.returnType)
    IN  Try(<<typeParams>> \o withRest \o <<returnType>>,
            [type |-> "TSFunctionType", typeParameters |-> typeParams,
             parameters |-> withRest,
             typeAnnotation |-> tsTypeAnnotation(returnType)])

\* actuallyMigrateType(reporter, filePath, flowType)
actuallyMigrateType(flowType) ==
    CASE flowType.type = "AnyTypeAnnotation" -> [type |-> "TSAnyKeyword"]
      [] flowType.type = "ArrayTypeAnnotation" ->
            LET elementType == migrateType(flowType.elementType)
            IN  Try(<<elementType>>,
                    [type |-> "TSArrayType", elementType |-> elementType])
      [] flowType.type = "BooleanTypeAnnotation" -> [type |-> "TSBooleanKeyword"]
      [] flowType.type = "BooleanLiteralTypeAnnotation" ->
            [type |-> "TSLiteralType",
             literal |-> [type |-> "BooleanLiteral", value |-> flowType.value]]
      [] flowType.type = "NullLiteralTypeAnnotation" -> [type |-> "TSNullKeyword"]
      [] flowType.type = "ExistsTypeAnnotation" ->
            tsTypeReference(Identifier("FlowAnyExistential"), Null)
      [] flowType.type = "FunctionTypeAnnotation" -> FunctionType(flowType)
      [] flowType.type = "GenericTypeAnnotation" ->
            LET id == migrateQualifiedIdentifier(flowType.id)
                params == IF /\ flowType.typeParameters # Null
                             /\ Len(flowType.typeParameters.params) > 0
                             THEN migrateTypeParameterInstantiation(
                                      flowType.typeParameters)
                             ELSE Null
            IN  Try(<<params>>, GenericType(id, params))
      [] flowType.type = "InterfaceTypeAnnotation" ->
            Throw(<<"Unsupported AST node", flowType.type>>)
      [] flowType.type = "IntersectionTypeAnnotation" ->
            LET tsTypes == [k \in 1..Len(flowType.types) |->
                                migrateType(flowType.types[k])]
            IN  Try(tsTypes,
                    [type |-> "TSIntersectionType",
                     types |-> [k \in 1..Len(tsTypes) |->
                                    Parenthesized(tsTypes[k])]])
      [] flowType.type = "MixedTypeAnnotation" -> [type |-> "TSUnknownKeyword"]
      [] flowType.type = "EmptyTypeAnnotation" -> [type |-> "TSNeverKeyword"]
      [] flowType.type = "NullableTypeAnnotation" ->
            LET tsType == migrateType(flowType.typeAnnotation)
            IN  Try(<<tsType>>,
                    [type |-> "TSUnionType",
                     types |-> <<tsType, [type |-> "TSNullKeyword"],
                                 [type |-> "TSUndefinedKeyword"]>>])
      [] flowType.type = "NumberLiteralTypeAnnotation" ->
            [type |-> "TSLiteralType",
             literal |-> [type |-> "NumericLiteral", value |-> flowType.value]]
      [] flowType.type = "NumberTypeAnnotation" -> [type |-> "TSNumberKeyword"]
      [] flowType.type = "ObjectTypeAnnotation" ->
            LET flowMembers == SortByLine(flowType.properties \o flowType.indexers
                                   \o flowType.callProperties
                                   \o flowType.internalSlots)
                tsMembers == [k \in 1..Len(flowMembers) |->
                                 IF flowMembers[k].type = "ObjectTypeSpreadProperty"
                                    THEN migrateType(flowMembers[k].argument)
                                    ELSE migrateObjectMember(flowMembers[k])]
            IN  Try(tsMembers, ObjectType(flowMembers, tsMembers))
      [] flowType.type = "StringLiteralTypeAnnotation" ->
            [type |-> "TSLiteralType",
             literal |-> [type |-> "StringLiteral", value |-> flowType.value]]
      [] flowType.type = "StringTypeAnnotation" -> [type |-> "TSStringKeyword"]
      [] flowType.type = "ThisTypeAnnotation" -> [type |-> "TSThisType"]
      [] flowType.type = "TupleTypeAnnotation" ->
            LET tsTypes == [k \in 1..Len(flowType.types) |->
                                migrateType(flowType.types[k])]
            IN  Try(tsTypes, [type |-> "TSTupleType", elementTypes |-> tsTypes])
      [] flowType.type = "TypeofTypeAnnotation" ->
            LET tsType == migrateType(flowType.argument)
            IN  IF Thrown(tsType) THEN tsType
                ELSE IF tsType.type # "TSTypeReference"
                   THEN Throw(<<"Unexpected AST node", tsType.type>>)
                ELSE IF tsType.typeParameters # Null
                   THEN Throw(<<"Unexpected type parameters on typeof argument.">>)
                ELSE [type |-> "TSTypeQuery", exprName |-> tsType.typeName]
      [] flowType.type = "UnionTypeAnnotation" ->
            LET tsTypes == [k \in 1..Len(flowType.types) |->
                                migrateType(flowType.types[k])]
            IN  Try(tsTypes, UnionType(tsTypes))
      [] flowType.type = "VoidTypeAnnotation" -> [type |-> "TSVoidKeyword"]
      [] OTHER -> Unexpected(flowType)

\* migrateType(reporter, filePath, flowType)
migrateType(flowType) == actuallyMigrateType(flowType)

\* migrateTypeParameterDeclaration(reporter, filePath, flowTypeParameters)
migrateTypeParameterDeclaration(flowTypeParameters) ==
    LET TypeParameter(flowTypeParameter) ==
            LET constraint ==
                    IF flowTypeParameter.bound # Null
                       THEN migrateType(flowTypeParameter.bound.typeAnnotation)
                       ELSE Null
                default == IF flowTypeParameter.default # Null
                              THEN migrateType(flowTypeParameter.default)
                              ELSE Null
            IN  Try(<<constraint, default>>,
                    [type |-> "TSTypeParameter", constraint |-> constraint,
                     default |-> default, name |-> flowTypeParameter.name])
        params == [k \in 1..Len(flowTypeParameters.params) |->
                       TypeParameter(flowTypeParameters.params[k])]
    IN  Try(params, [type |-> "TSTypeParameterDeclaration", params |-> params])

\* actuallyMigrateObjectMember(reporter, filePath, flowMember); a kind that
\* is null is the empty string
actuallyMigrateObjectMember(flowMember) ==
    CASE flowMember.type = "ObjectTypeProperty" ->
            IF ~(flowMember.kind # "" \/ flowMember.kind = "init")
               THEN Throw(<<"Unsupported object type property kind", flowMember.kind>>)
            ELSE IF flowMember.proto
               THEN Throw(<<"Did not expect any Flow properties with proto set to true.">>)
            ELSE IF flowMember.static
               THEN Throw(<<"Did not expect any Flow properties with static set to true.">>)
            ELSE LET tsValue == migrateType(flowMember.value)
                 IN  IF Thrown(tsValue) THEN tsValue
                     ELSE IF ~flowMember.method
                        THEN [type |-> "TSPropertySignature",
                              key |-> flowMember.key,
                              typeAnnotation |-> tsTypeAnnotation(tsValue),
                              computed |-> flowMember.key.type # "Identifier",
                              optional |-> flowMember.optional,
                              readonly |-> Readonly(flowMember.variance)]
                     ELSE IF tsValue.type # "TSFunctionType"
                        THEN Throw(<<"Unexpected AST node", tsValue.type>>)
                     ELSE [type |-> "TSMethodSignature",
                           key |-> flowMember.key,
                           typeParameters |-> tsValue.typeParameters,
                           parameters |-> tsValue.parameters,
                           typeAnnotation |-> tsValue.typeAnnotation,
                           computed |-> flowMember.key.type # "Identifier",
                           optional |-> flowMember.optional]
      [] flowMember.type = "ObjectTypeIndexer" ->
            IF flowMember.static
               THEN Throw(<<"Did not expect any Flow properties with static set to true.">>)
            ELSE LET key == migrateType(flowMember.key)
                     value == migrateType(flowMember.value)
                 IN  Try(<<key, value>>,
                         [type |-> "TSIndexSignature",
                          parameters |-> <<tsIdentifier(
                              IF flowMember.id # Null THEN flowMember.id.name
                              ELSE "key",
                              Null, tsTypeAnnotation(key))>>,
                          typeAnnotation |-> tsTypeAnnotation(value),
                          readonly |-> Readonly(flowMember.variance)])
      [] flowMember.type = "ObjectTypeCallProperty" ->
            Throw(<<"Unsupported AST node", flowMember.type>>)
      [] flowMember.type = "ObjectTypeInternalSlot" ->
            Throw(<<"Unsupported AST node", flowMember.type>>)
      [] OTHER -> Throw(<<"Unrecognized AST node", flowMember.type>>)

\* migrateObjectMember(reporter, filePath, flowMember)
migrateObjectMember(flowMember) == actuallyMigrateObjectMember(flowMember)

\* ----------------------------------------- what migrateType reports
\* what a node below a migrated type becomes: a type, a type parameter or
\* an object type member
Migrated(item) ==
    CASE item.type = "TypeParameter" ->
            migrateTypeParameterDeclaration([params |-> <<item>>])
      [] item.type = "ObjectTypeSpreadProperty" -> migrateType(item.argument)
      [] item.type \in {"ObjectTypeProperty", "ObjectTypeIndexer",
                        "ObjectTypeCallProperty", "ObjectTypeInternalSlot"} ->
            migrateObjectMember(item)
      [] OTHER -> migrateType(item)

\* the calls of reporter.typeParameterWithVariance,
\* objectPropertyWithInternalName and objectPropertyWithMinusVariance made
\* while a node is migrated, up to the first error thrown: the calls of the
\* node itself, then those of the nodes below it in the order in which they
\* are migrated. key.name.startsWith('$') is true of the name "$key"
RECURSIVE reported(_)
RECURSIVE reportedAll(_)
reported(item) ==
    LET MinusVariance ==
            IF item.variance # Null /\ item.variance.kind # "plus"
               THEN << <<"objectPropertyWithMinusVariance", item.line>> >>
               ELSE <<>>
        own ==
            CASE item.type = "TypeParameter" ->
                    IF item.variance # Null
                       THEN << <<"typeParameterWithVariance", item.line>> >>
                       ELSE <<>>
              [] item.type = "ObjectTypeProperty" ->
                    (IF item.key.type = "Identifier" /\ item.key.name \in {"$key"}
                        THEN << <<"objectPropertyWithInternalName", item.line>> >>
                        ELSE <<>>) \o MinusVariance
              [] item.type = "ObjectTypeIndexer" -> MinusVariance
              [] OTHER -> <<>>
        below ==
            CASE item.type = "ArrayTypeAnnotation" -> <<item.elementType>>
              [] item.type = "FunctionTypeAnnotation" ->
                    (IF item.typeParameters # Null THEN item.typeParameters.params
                     ELSE <<>>)
                    \o [k \in 1..Len(item.params) |-> item.params[k].typeAnnotation]
                    \o (IF item.rest # Null THEN <<item.rest.typeAnnotation>>
                        ELSE <<>>)
                    \o <<item.returnType>>
              [] item.type = "GenericTypeAnnotation" ->
                    IF item.typeParameters # Null THEN item.typeParameters.params
                    ELSE <<>>
              [] item.type \in {"IntersectionTypeAnnotation", "UnionTypeAnnotation",
                                "TupleTypeAnnotation"} -> item.types
              [] item.type = "NullableTypeAnnotation" -> <<item.typeAnnotation>>
              [] item.type = "ObjectTypeAnnotation" ->
                    SortByLine(item.properties \o item.indexers
                                   \o item.callProperties \o item.internalSlots)
              [] item.type = "TypeofTypeAnnotation" -> <<item.argument>>
              [] item.type = "TypeParameter" ->
                    (IF item.bound # Null THEN <<item.bound.typeAnnotation>>
                     ELSE <<>>)
                    \o (IF item.default # Null THEN <<item.default>> ELSE <<>>)
              [] item.type = "ObjectTypeSpreadProperty" -> <<item.argument>>
              [] item.type = "ObjectTypeProperty" ->
                    IF item.kind = "" \/ item.proto \/ item.static THEN <<>>
                    ELSE <<item.value>>
              [] item.type = "ObjectTypeIndexer" ->
                    IF item.static THEN <<>> ELSE <<item.key, item.value>>
              [] OTHER -> <<>>
    IN  own \o reportedAll(below)

reportedAll(items) ==
    IF items = <<>> THEN <<>>
    ELSE reported(Head(items))
         \o (IF Thrown(Migrated(Head(items))) THEN <<>>
             ELSE reportedAll(Tail(items)))

\* ------------------------------------------------ types that are migrated
MaxTypes == 2    \* most members of a union, intersection, tuple, argument
                 \* list, parameter list, property list or array literal

SeqsUpTo(S, n) == UNION {[1..k -> S] : k \in 0..n}

\* a GenericTypeAnnotation: typeParameters is null without type arguments
Generic(id, params) ==
    [type |-> "GenericTypeAnnotation", id |-> id,
     typeParameters |-> IF params = <<>> THEN Null
                        ELSE [type |-> "TypeParameterInstantiation",
                              params |-> params]]

\* the types given to migrateType: every kind of t.FlowType and a kind of a
\* later grammar (SymbolTypeAnnotation), alone, one below another, and two
\* levels deep
FlowTypes ==
    LET Flow(kind) == [type |-> kind]
        any == Flow("AnyTypeAnnotation")
        string == Flow("StringTypeAnnotation")
        interface == Flow("InterfaceTypeAnnotation")
        symbol == Flow("SymbolTypeAnnotation")
        Named(name) == Generic(Identifier(name), <<>>)
        React(name) == [type |-> "QualifiedTypeIdentifier",
                        qualification |-> Identifier("React"),
                        id |-> Identifier(name)]
        Function(typeParameters, params, rest, returnType) ==
            [type |-> "FunctionTypeAnnotation", typeParameters |-> typeParameters,
             params |-> params, rest |-> rest, returnType |-> returnType]
        Param(name, optional, typeAnnotation) ==
            [type |-> "FunctionTypeParam", name |-> name, optional |-> optional,
             typeAnnotation |-> typeAnnotation]
        TypeParameter(variance, bound, default) ==
            [type |-> "TypeParameter", name |-> "T", variance |-> variance,
             bound |-> IF bound = Null THEN Null
                       ELSE [type |-> "TypeAnnotation", typeAnnotation |-> bound],
             default |-> default, line |-> 1]
        Property(key, value, line) ==
            [type |-> "ObjectTypeProperty", key |-> key, value |-> value,
             optional |-> FALSE, variance |-> Null, kind |-> "init",
             proto |-> FALSE, static |-> FALSE, method |-> FALSE, line |-> line]
        Indexer(id, key, value, line) ==
            [type |-> "ObjectTypeIndexer", id |-> id, key |-> key, value |-> value,
             variance |-> Null, static |-> FALSE, line |-> line]
        Spread(argument, line) ==
            [type |-> "ObjectTypeSpreadProperty", argument |-> argument,
             line |-> line]
        Object(properties, indexers, callProperties, internalSlots) ==
            [type |-> "ObjectTypeAnnotation", properties |-> properties,
             indexers |-> indexers, callProperties |-> callProperties,
             internalSlots |-> internalSlots]
        voidFunction == Function(Null, <<>>, Null, Flow("VoidTypeAnnotation"))
        atoms == {any, string, Named("T"), interface, symbol, voidFunction}
        leaves ==
            {Flow(kind) : kind \in
                 {"AnyTypeAnnotation", "BooleanTypeAnnotation",
                  "NullLiteralTypeAnnotation", "ExistsTypeAnnotation",
                  "InterfaceTypeAnnotation", "MixedTypeAnnotation",
                  "EmptyTypeAnnotation", "NumberTypeAnnotation",
                  "StringTypeAnnotation", "ThisTypeAnnotation",
                  "VoidTypeAnnotation", "SymbolTypeAnnotation"}}
            \cup {[type |-> "BooleanLiteralTypeAnnotation", value |-> TRUE],
                  [type |-> "NumberLiteralTypeAnnotation", value |-> 42],
                  [type |-> "StringLiteralTypeAnnotation", value |-> "ok"]}
            \cup {Named(name) : name \in {"Object", "Function", "T", "$Keys"}}
            \cup {Generic(React("Node"), <<>>)}
        lists == SeqsUpTo(atoms, MaxTypes) \ {<<>>}
        generics ==
            {Generic(id, params) :
                 id \in {Identifier(name) : name \in
                             {"Object", "$ReadOnlyArray", "$ReadOnly", "$Keys",
                              "$Values", "$Shape", "$Subtype", "$PropertyType",
                              "$ElementType", "T"}}
                        \cup {React("Element"), React("Node")},
                 params \in lists}
            \cup {Generic(React("Element"), <<Flow("ExistsTypeAnnotation")>>)}
        typeParameters ==
            {Null}
            \cup {[type |-> "TypeParameterDeclaration", params |-> <<p>>] : p \in
                      {TypeParameter(Null, Null, Null),
                       TypeParameter([kind |-> "plus"], string, any),
                       TypeParameter(Null, interface, Null)}}
        params ==
            {Param(Identifier("x"), FALSE, any), Param(Null, FALSE, string),
             Param(Identifier("y"), TRUE, Named("T")),
             Param(Null, FALSE, interface)}
        rests ==
            {Null, Param(Null, FALSE, any),
             Param(Identifier("more"), FALSE, symbol)}
        functions ==
            {Function(tp, ps, rest, returnType) :
                 tp \in typeParameters, ps \in SeqsUpTo(params, MaxTypes),
                 rest \in rests, returnType \in atoms}
        properties ==
            {Property(Identifier("a"), any, 1),
             Property([type |-> "StringLiteral", value |-> "b"], string, 2),
             [Property(Identifier("$key"), Named("T"), 2)
                 EXCEPT !.variance = [kind |-> "minus"], !.optional = TRUE],
             [Property(Identifier("c"), any, 1) EXCEPT !.variance = [kind |-> "plus"]],
             [Property(Identifier("d"), any, 1) EXCEPT !.kind = ""],
             [Property(Identifier("e"), any, 1) EXCEPT !.proto = TRUE],
             [Property(Identifier("f"), any, 1) EXCEPT !.static = TRUE],
             [Property(Identifier("m"), voidFunction, 3) EXCEPT !.method = TRUE],
             [Property(Identifier("g"), voidFunction, 3)
                 EXCEPT !.method = TRUE, !.kind = "get"],
             [Property(Identifier("n"), string, 3) EXCEPT !.method = TRUE],
             Property(Identifier("i"), interface, 2),
             Spread(Named("T"), 2),
             Spread(symbol, 1)}
        indexers ==
            {Indexer(Null, string, any, 1),
             Indexer(Identifier("k"), Named("T"), string, 2),
             [Indexer(Null, Flow("NumberTypeAnnotation"), any, 3)
                 EXCEPT !.variance = [kind |-> "minus"]],
             [Indexer(Null, string, any, 1) EXCEPT !.static = TRUE]}
        objects ==
            {Object(ps, xs, cs, ss) :
                 ps \in SeqsUpTo(properties, MaxTypes),
                 xs \in SeqsUpTo(indexers, 1),
                 cs \in SeqsUpTo({[type |-> "ObjectTypeCallProperty", line |-> 2]}, 1),
                 ss \in SeqsUpTo({[type |-> "ObjectTypeInternalSlot", line |-> 1]}, 1)}
        unary ==
            {[type |-> "ArrayTypeAnnotation", elementType |-> a] : a \in atoms}
            \cup {[type |-> "NullableTypeAnnotation", typeAnnotation |-> a] :
                      a \in atoms}
            \cup {[type |-> "TypeofTypeAnnotation", argument |-> a] :
                      a \in atoms \cup {Generic(Identifier("T"), <<any>>)}}
        nary ==
            {[type |-> kind, types |-> types] :
                 kind \in {"IntersectionTypeAnnotation", "UnionTypeAnnotation",
                           "TupleTypeAnnotation"},
                 types \in lists}
        below ==
            unary
            \cup {c \in nary : Len(c.types) = 1}
            \cup {c \in generics : Len(c.typeParameters.params) = 1}
            \cup {Object(<<p>>, <<>>, <<>>, <<>>) : p \in properties}
            \cup {Object(<<>>, <<x>>, <<>>, <<>>) : x \in indexers}
        nested ==
            {[type |-> "ArrayTypeAnnotation", elementType |-> c] : c \in below}
            \cup {[type |-> "UnionTypeAnnotation", types |-> <<c, any>>] :
                      c \in below}
            \cup {Object(<<Property(Identifier("a"), c, 1), Spread(c, 2)>>,
                         <<>>, <<>>, <<>>) : c \in below}
            \cup {Object(<<>>, <<Indexer(Null, a, string, 1)>>, <<>>, <<>>) :
                      a \in atoms}
        \* object types as they are declared: properties, indexers and
        \* spreads in every order, on one line or on several; the member
        \* declared at place j starts at column j of its line
        names == <<"a", "b", "c", "d">>
        Declared(kinds, lines) ==
            LET Member(j) ==
                    CASE kinds[j] = "property" ->
                            Property(Identifier(names[j]), any, lines[j])
                      [] kinds[j] = "indexer" ->
                            Indexer(Identifier("k"), string, any, lines[j])
                      [] OTHER -> Spread(Named("T"), lines[j])
                members == [j \in 1..Len(kinds) |-> Member(j) @@ [column |-> j]]
                IsIndexer(member) == member.type = "ObjectTypeIndexer"
                IsProperty(member) == ~IsIndexer(member)
            IN  Object(SelectSeq(members, IsProperty),
                       SelectSeq(members, IsIndexer), <<>>, <<>>)
        declared ==
            UNION {{Declared(kinds, lines) :
                        lines \in {ls \in [1..Len(kinds) -> 1..2] :
                                      \A j \in 2..Len(kinds) : ls[j - 1] <= ls[j]}} :
                   kinds \in SeqsUpTo({"property", "indexer", "spread"},
                                      MaxTypes + 1)}
    IN  leaves \cup unary \cup nary \cup generics \cup functions \cup objects
        \cup nested \cup declared

\* the members given to migrateObjectMember: those of the object types,
\* spreads included
FlowMembers ==
    UNION {Range(o.properties) \cup Range(o.indexers) \cup Range(o.callProperties)
               \cup Range(o.internalSlots) :
           o \in {flowType \in FlowTypes : flowType.type = "ObjectTypeAnnotation"}}

InitType ==
    /\ NoRun
    /\ \/ \E flowType \in FlowTypes :
             call = [fn |-> "migrateType", flowType |-> flowType]
       \/ \E flowMember \in FlowMembers :
             call = [fn |-> "migrateObjectMember", flowMember |-> flowMember]
    /\ ret = [kind |-> "none"]
    /\ reporter = [w \in Workers |-> <<>>]

MigrateType ==
    /\ call.fn = "migrateType"
    /\ ret.kind = "none"
    /\ ret' = [kind |-> "migrated", node |-> migrateType(call.flowType),
               reported |-> reported(call.flowType)]
    /\ UNCHANGED <<call, reporter, primaryVars, fileVars, oracleVars,
                   toWorker, toPrimary, worker, active>>

MigrateObjectMember ==
    /\ call.fn = "migrateObjectMember"
    /\ ret.kind = "none"
    /\ ret' = [kind |-> "migrated", node |-> migrateObjectMember(call.flowMember),
               reported |-> reported(call.flowMember)]
    /\ UNCHANGED <<call, reporter, primaryVars, fileVars, oracleVars,
                   toWorker, toPrimary, worker, active>>

NextType == MigrateType \/ MigrateObjectMember

SpecType == InitType /\ [][NextType]_vars

\* ---------------------------------------------------- TypeCastExpression
\* isComplexLiteral(expression); t.isLiteral and t.isExpression are tests
\* of the node kind
RECURSIVE isComplexLiteral(_)
isComplexLiteral(expression) ==
    LET isLiteral(node) ==
            node.type \in {"StringLiteral", "NumericLiteral", "NullLiteral",
                           "BooleanLiteral", "RegExpLiteral", "TemplateLiteral",
                           "BigIntLiteral"}
        isExpression(node) ==
            \/ isLiteral(node)
            \/ node.type \in {"Identifier", "CallExpression", "ArrayExpression",
                              "ObjectExpression", "TypeCastExpression",
                              "MemberExpression"}
    IN  IF isLiteral(expression) THEN TRUE
        ELSE IF expression.type = "Identifier" /\ expression.name = "undefined"
           THEN TRUE
        ELSE IF expression.type = "ArrayExpression"
           THEN \A k \in 1..Len(expression.elements) :
                   LET element == expression.elements[k]
                   IN  \/ element = Null
                       \/ IF element.type = "SpreadElement"
                             THEN isComplexLiteral(element.argument)
                             ELSE isComplexLiteral(element)
        ELSE IF expression.type = "ObjectExpression"
           THEN \A k \in 1..Len(expression.properties) :
                   LET property == expression.properties[k]
                   IN  /\ property.type # "ObjectMethod"
                       /\ property.type # "SpreadElement"
                       /\ ~(property.computed /\ ~isComplexLiteral(property.key))
                       /\ ~(/\ isExpression(property.value)
                            /\ ~isComplexLiteral(property.value))
        ELSE FALSE

\* isInsideCreateReactClass(path): path is the node followed by its
\* ancestors, up to the program
isInsideCreateReactClass_Never(path) == FALSE

RECURSIVE isInsideCreateReactClass(_)
isInsideCreateReactClass(path) ==
    IF path = <<>> THEN FALSE
    ELSE IF /\ Head(path).type = "CallExpression"
            /\ Head(path).callee.type = "Identifier"
            /\ Head(path).callee.name = "createReactClass"
       THEN TRUE
    ELSE isInsideCreateReactClass(Tail(path))

tsAsExpression(expression, typeAnnotation) ==
    [type |-> "TSAsExpression", expression |-> expression,
     typeAnnotation |-> typeAnnotation]

\* the visitor TypeCastExpression(path): path is the cast followed by its
\* ancestors, hasBinding is path.scope.hasBinding('u'). The result is the
\* node that replaces the cast, whether importUtils asked for the import,
\* and the reporter calls made (reporter.unsupportedTypeCast is not called)
TypeCastExpression(path, hasBinding) ==
    LET node == Head(path)
        parent == path[2]
        expression == node.expression
        flowType == node.typeAnnotation.typeAnnotation
        inner == expression.typeAnnotation.typeAnnotation
        types == IF expression.type = "TypeCastExpression"
                    THEN {inner, flowType} ELSE {flowType}
        \* tsTypes[type] is migrateType(reporter, filePath, type) and
        \* calls[type] the reporter calls it makes
        Replacement(tsTypes, calls) ==
            LET tsType == tsTypes[flowType]
            IN  IF /\ expression.type = "TypeCastExpression"
                   /\ \/ inner.type = "AnyTypeAnnotation"
                      \/ /\ inner.type = "GenericTypeAnnotation"
                         /\ inner.typeParameters # Null
                         /\ inner.id.type = "Identifier"
                         /\ inner.id.name \in {"Object", "Function"}
                   THEN IF /\ parent.type = "ObjectProperty"
                           /\ isInsideCreateReactClass(path)
                           THEN [node |-> Try(<<tsTypes[inner], tsType>>,
                                     tsAsExpression(
                                         [type |-> "ParenthesizedExpression",
                                          expression |->
                                              tsAsExpression(
                                                  expression.expression,
                                                  tsTypes[inner])],
                                         tsType)),
                                 shouldImportUtils |-> FALSE,
                                 reported |->
                                     calls[inner]
                                     \o (IF Thrown(tsTypes[inner]) THEN <<>>
                                         ELSE calls[flowType])]
                           ELSE [node |-> Try(<<tsType>>,
                                     tsAsExpression(expression.expression,
                                                    tsType)),
                                 shouldImportUtils |-> FALSE,
                                 reported |-> calls[flowType]]
                ELSE IF flowType.type = "AnyTypeAnnotation"
                   THEN [node |-> tsAsExpression(expression, tsType),
                         shouldImportUtils |-> FALSE,
                         reported |-> calls[flowType]]
                ELSE IF \/ /\ expression.type = "StringLiteral"
                           /\ flowType.type = "StringLiteralTypeAnnotation"
                           /\ expression.value = flowType.value
                        \/ /\ expression.type = "NumericLiteral"
                           /\ flowType.type = "NumberLiteralTypeAnnotation"
                           /\ expression.value = flowType.value
                   THEN [node |-> tsAsExpression(expression,
                                      tsTypeReference(Identifier("const"), Null)),
                         shouldImportUtils |-> FALSE, reported |-> <<>>]
                ELSE IF isComplexLiteral(expression)
                   THEN [node |-> Try(<<tsType>>,
                                      tsAsExpression(expression, tsType)),
                         shouldImportUtils |-> FALSE,
                         reported |-> calls[flowType]]
                ELSE [node |-> Try(<<tsType>>,
                          [type |-> "CallExpression",
                           callee |-> [type |-> "MemberExpression",
                                       object |-> Identifier("u"),
                                       property |-> Identifier("cast")],
                           arguments |-> <<expression>>,
                           typeParameters |->
                               tsTypeParameterInstantiation(<<tsType>>)]),
                      shouldImportUtils |-> ~hasBinding,
                      reported |-> calls[flowType]]
    IN  Replacement([type \in types |-> migrateType(type)],
                    [type \in types |-> reported(type)])

\* the casts given to the visitor, each followed by its ancestors: casts of
\* identifiers, literals, calls, array and object expressions and of casts,
\* to any, to literal types, to names, and to a type that cannot be migrated
CastPaths ==
    LET Cast(expression, flowType) ==
            [type |-> "TypeCastExpression", expression |-> expression,
             typeAnnotation |-> [type |-> "TypeAnnotation",
                                 typeAnnotation |-> flowType]]
        Call(name) ==
            [type |-> "CallExpression", callee |-> Identifier(name),
             arguments |-> <<>>]
        String(value) == [type |-> "StringLiteral", value |-> value]
        Number(value) == [type |-> "NumericLiteral", value |-> value]
        Property(key, value, computed) ==
            [type |-> "ObjectProperty", key |-> key, value |-> value,
             computed |-> computed]
        Spread(argument) == [type |-> "SpreadElement", argument |-> argument]
        Named(name) == Generic(Identifier(name), <<>>)
        any == [type |-> "AnyTypeAnnotation"]
        interface == [type |-> "InterfaceTypeAnnotation"]
        simple ==
            {Identifier("x"), Identifier("undefined"), String("ok"), Number(42),
             [type |-> "NullLiteral"], Call("someFunctionCall"),
             [type |-> "TemplateLiteral",
              expressions |-> <<Call("someFunctionCall")>>]}
        elements ==
            {Null, Number(42), Identifier("x"),
             Spread([type |-> "ArrayExpression", elements |-> <<>>]),
             Spread(Identifier("x"))}
        arrays ==
            {[type |-> "ArrayExpression", elements |-> es] :
                 es \in SeqsUpTo(elements, MaxTypes)}
        members ==
            {Property(Identifier("a"), Number(42), FALSE),
             Property(Identifier("b"), Call("someFunctionCall"), FALSE),
             Property(String("k"), String("ok"), TRUE),
             Property(Identifier("x"), [type |-> "NullLiteral"], TRUE),
             [type |-> "ObjectMethod", key |-> Identifier("m")],
             Spread(Identifier("x"))}
        objects ==
            {[type |-> "ObjectExpression", properties |-> ps] :
                 ps \in SeqsUpTo(members, MaxTypes)}
        innerTypes ==
            {any, Named("Object"), Named("Function"), Named("T"),
             Generic(Identifier("Object"), <<Named("T")>>),
             Generic(Identifier("Function"), <<any>>),
             Generic([type |-> "QualifiedTypeIdentifier",
                      qualification |-> Identifier("React"),
                      id |-> Identifier("Object")], <<any>>),
             interface}
        casts ==
            {Cast(expression, flowType) :
                 expression \in {Identifier("x"), String("ok")},
                 flowType \in innerTypes}
        castTypes ==
            {any, [type |-> "StringTypeAnnotation"], Named("T"), Named("Object"),
             [type |-> "StringLiteralTypeAnnotation", value |-> "ok"],
             [type |-> "StringLiteralTypeAnnotation", value |-> "no"],
             [type |-> "NumberLiteralTypeAnnotation", value |-> 42],
             [type |-> "NullableTypeAnnotation", typeAnnotation |-> Named("T")],
             interface}
        program == [type |-> "Program"]
        object == [type |-> "ObjectExpression"]
        property == [type |-> "ObjectProperty"]
        ancestors ==
            {<<[type |-> "ExpressionStatement"], program>>,
             <<[type |-> "VariableDeclarator"], [type |-> "VariableDeclaration"],
               program>>,
             <<property, object, Call("createReactClass"), program>>,
             <<property, object, Call("someFunctionCall"), program>>,
             <<[type |-> "ReturnStatement"], [type |-> "ObjectMethod"], object,
               Call("createReactClass"), program>>}
    IN  {<<Cast(expression, flowType)>> \o above :
             expression \in simple \cup arrays \cup objects \cup casts,
             flowType \in castTypes, above \in ancestors}

InitCast ==
    /\ NoRun
    /\ \E path \in CastPaths : \E hasBinding \in BOOLEAN :
          call = [fn |-> "TypeCastExpression", path |-> path,
                  hasBinding |-> hasBinding]
    /\ ret = [kind |-> "none"]
    /\ reporter = [w \in Workers |-> <<>>]

VisitTypeCast ==
    /\ call.fn = "TypeCastExpression"
    /\ ret.kind = "none"
    /\ LET replaced == TypeCastExpression(call.path, call.hasBinding)
       IN  ret' = [kind |-> "replaced", node |-> replaced.node,
                   shouldImportUtils |-> replaced.shouldImportUtils,
                   reported |-> replaced.reported]
    /\ UNCHANGED <<call, reporter, primaryVars, fileVars, oracleVars,
                   toWorker, toPrimary, worker, active>>

NextCast == VisitTypeCast

SpecCast == InitCast /\ [][NextCast]_vars

\* ------------------------------------------------- function parameters
\* the visitor TypeAnnotation(path): path is the annotation followed by its
\* parent and the parent of its parent. The result is whether
\* path.parent.optional was set to true and the node that replaces the
\* annotation
TypeAnnotation_AlsoDeclarators(path) ==
    LET flowType == path[1].typeAnnotation
        nullable == /\ path[2].type = "Identifier"
                    /\ flowType.type = "NullableTypeAnnotation"
        Replaced(tsType) ==
            [optional |-> nullable,
             node |-> Try(<<tsType>>, tsTypeAnnotation(tsType))]
    IN  Replaced(migrateType(
            IF nullable
               THEN [type |-> "UnionTypeAnnotation",
                     types |-> <<flowType.typeAnnotation,
                                 [type |-> "NullLiteralTypeAnnotation"]>>]
               ELSE flowType))

TypeAnnotation(path) ==
    LET node == path[1]
        parent == path[2]
        isParameter == /\ parent.type = "Identifier"
                       /\ path[3].type # "VariableDeclarator"
        isNullable == /\ isParameter
                      /\ node.typeAnnotation.type = "NullableTypeAnnotation"
        nullableType == [type |-> "UnionTypeAnnotation",
                         types |-> <<node.typeAnnotation.typeAnnotation,
                                     [type |-> "NullLiteralTypeAnnotation"]>>]
        unionType == IF isNullable THEN nullableType ELSE node.typeAnnotation
        NotVoid(type) == type.type # "VoidTypeAnnotation"
        hasVoid == /\ isParameter
                   /\ unionType.type = "UnionTypeAnnotation"
                   /\ \E k \in 1..Len(unionType.types) :
                         ~NotVoid(unionType.types[k])
        Replaced(tsType) ==
            [optional |-> isNullable \/ hasVoid,
             node |-> Try(<<tsType>>, tsTypeAnnotation(tsType))]
    IN  Replaced(migrateType(
            IF hasVoid
               THEN [unionType EXCEPT
                         !.types = SelectSeq(unionType.types, NotVoid)]
               ELSE unionType))

\* the visitor AssignmentPattern(path)
AssignmentPattern(node) ==
    IF node.right # Null /\ node.left.type = "Identifier" /\ node.left.optional
       THEN [node EXCEPT !.left.optional = FALSE]
       ELSE node

\* FunctionDeclaration.enter: in a test file every parameter without a type
\* annotation is annotated with any (annotateParamsWithFlowTypeAtPos only
\* enqueues its queries here; see the flow type-at-pos queue)
FunctionDeclarationEnter(params, isTestFile) ==
    [k \in 1..Len(params) |->
        IF isTestFile /\ params[k].typeAnnotation = Null
           THEN [params[k] EXCEPT
                     !.typeAnnotation = tsTypeAnnotation([type |-> "TSAnyKeyword"])]
           ELSE params[k]]

\* FunctionDeclaration.exit: the parameters are walked from the last to the
\* first; optionalAt[k] is the variable `optional` when params[k] is reached
FunctionDeclarationExit_Keep(params) == params

FunctionDeclarationExit(params) ==
    LET paramIsOptional(param) ==
            \/ param.type = "AssignmentPattern"
            \/ param.type = "Identifier" /\ param.optional
        optionalAt[k \in 1..Len(params)] ==
            IF k = Len(params) THEN TRUE
            ELSE optionalAt[k + 1] /\ paramIsOptional(params[k + 1])
        WithUndefined(identifier) ==
            LET annotation == identifier.typeAnnotation
                required == IF identifier.type = "Identifier"
                               THEN [identifier EXCEPT !.optional = FALSE]
                               ELSE identifier
            IN  IF annotation # Null /\ annotation.type = "TSTypeAnnotation"
                   THEN [required EXCEPT !.typeAnnotation.typeAnnotation =
                            IF annotation.typeAnnotation.type = "TSUnionType"
                               THEN [annotation.typeAnnotation EXCEPT
                                         !.types = Append(@,
                                             [type |-> "TSUndefinedKeyword"])]
                               ELSE [type |-> "TSUnionType",
                                     types |-> <<annotation.typeAnnotation,
                                                 [type |-> "TSUndefinedKeyword"]>>]]
                   ELSE required
        Exit(k) ==
            LET param == IF /\ params[k].type = "AssignmentPattern"
                            /\ params[k].left.type = "Identifier"
                            /\ params[k].left.optional
                            THEN [params[k] EXCEPT !.left.optional = FALSE]
                            ELSE params[k]
            IN  IF paramIsOptional(param) /\ ~optionalAt[k]
                   THEN IF param.type = "AssignmentPattern"
                           THEN [param EXCEPT !.left = WithUndefined(@)]
                           ELSE WithUndefined(param)
                   ELSE param
    IN  [k \in 1..Len(params) |-> Exit(k)]

\* the functions that are traversed, each with at most MaxParams parameters:
\* identifiers with and without `?` and with the annotations T, ?T, T | void,
\* T | null and ?void, parameters with a default value, a destructured
\* parameter and a parameter whose type cannot be migrated
FunctionNodes ==
    LET Annotation(flowType) ==
            [type |-> "TypeAnnotation", typeAnnotation |-> flowType]
        T == Generic(Identifier("T"), <<>>)
        void == [type |-> "VoidTypeAnnotation"]
        Nullable(flowType) ==
            [type |-> "NullableTypeAnnotation", typeAnnotation |-> flowType]
        Union(flowTypes) == [type |-> "UnionTypeAnnotation", types |-> flowTypes]
        plain == {Null, Annotation(T)}
        marked == {Annotation(Nullable(T)), Annotation(Union(<<T, void>>))}
        other == {Annotation(Nullable(void)),
                  Annotation(Union(<<T, [type |-> "NullLiteralTypeAnnotation"]>>)),
                  Annotation([type |-> "InterfaceTypeAnnotation"])}
        identifiers ==
            {tsIdentifier("a", optional, typeAnnotation) :
                 optional \in BOOLEAN, typeAnnotation \in plain \cup marked}
            \cup {tsIdentifier("a", FALSE, typeAnnotation) :
                      typeAnnotation \in other}
        patterns ==
            {[type |-> "AssignmentPattern", left |-> left,
              right |-> Identifier("y"), typeAnnotation |-> Null] :
                 left \in {tsIdentifier("a", optional, Annotation(flowType)) :
                               optional \in BOOLEAN,
                               flowType \in {T, Nullable(T)}}}
            \cup {[type |-> "ObjectPattern",
                   typeAnnotation |-> Annotation(Nullable(T))]}
        names == <<"a", "b", "c", "d">>
        Named(param, k) ==
            IF param.type = "Identifier" THEN [param EXCEPT !.name = names[k]]
            ELSE IF param.type = "AssignmentPattern"
               THEN [param EXCEPT !.left.name = names[k]]
            ELSE param
    IN  {[type |-> kind,
          params |-> [k \in 1..Len(params) |-> Named(params[k], k)]] :
             kind \in {"FunctionDeclaration", "FunctionExpression",
                       "ClassMethod", "ObjectMethod"},
             params \in SeqsUpTo(identifiers \cup patterns, MaxParams)}

\* the annotations that are visited outside parameter lists, each with its
\* parent and the parent of its parent
TypePaths ==
    LET T == Generic(Identifier("T"), <<>>)
        void == [type |-> "VoidTypeAnnotation"]
        flowTypes ==
            {T, [type |-> "NullableTypeAnnotation", typeAnnotation |-> T],
             [type |-> "NullableTypeAnnotation", typeAnnotation |-> void],
             [type |-> "UnionTypeAnnotation", types |-> <<T, void>>],
             [type |-> "InterfaceTypeAnnotation"]}
        positions ==
            {<<tsIdentifier("x", FALSE, Null), [type |-> "VariableDeclarator"]>>,
             <<tsIdentifier("x", FALSE, Null), [type |-> "DeclareVariable"]>>,
             <<tsIdentifier("x", FALSE, Null),
               [type |-> "ArrowFunctionExpression"]>>,
             <<[type |-> "FunctionDeclaration"], [type |-> "Program"]>>,
             <<[type |-> "ClassProperty"], [type |-> "ClassBody"]>>,
             <<[type |-> "RestElement"], [type |-> "FunctionDeclaration"]>>}
    IN  {<<[type |-> "TypeAnnotation", typeAnnotation |-> flowType]>> \o above :
             flowType \in flowTypes, above \in positions}

InitParams ==
    /\ NoRun
    /\ \/ \E node \in FunctionNodes : \E isTestFile \in BOOLEAN :
             call = [fn |-> "traverse", node |-> node, isTestFile |-> isTestFile]
       \/ \E path \in TypePaths : call = [fn |-> "TypeAnnotation", path |-> path]
    /\ ret = [kind |-> "none"]
    /\ reporter = [w \in Workers |-> <<>>]

\* the node that is visited next inside the traversed function
Visited ==
    LET param == ret.params[ret.next]
    IN  IF param.type = "AssignmentPattern" /\ ret.inside THEN param.left
        ELSE param

\* FunctionDeclaration.enter, or nothing for the other functions
EnterFunction ==
    /\ call.fn = "traverse"
    /\ ret.kind = "none"
    /\ ret' = [kind |-> "entered",
               params |-> IF call.node.type = "FunctionDeclaration"
                             THEN FunctionDeclarationEnter(call.node.params,
                                                           call.isTestFile)
                             ELSE call.node.params,
               next |-> 1, inside |-> FALSE]
    /\ UNCHANGED <<call, reporter, primaryVars, fileVars, oracleVars,
                   toWorker, toPrimary, worker, active>>

\* the visitor AssignmentPattern on the next parameter, before its left
\* side is visited
VisitAssignmentPattern ==
    /\ ret.kind = "entered"
    /\ ret.next <= Len(ret.params)
    /\ ret.params[ret.next].type = "AssignmentPattern"
    /\ ~ret.inside
    /\ ret' = [ret EXCEPT !.params[ret.next] = AssignmentPattern(@),
                          !.inside = TRUE]
    /\ UNCHANGED <<call, reporter, primaryVars, fileVars, oracleVars,
                   toWorker, toPrimary, worker, active>>

\* the next parameter is visited: the visitor TypeAnnotation runs on its Flow
\* annotation, if it has one; what the visitor throws ends the traversal
VisitParam ==
    /\ ret.kind = "entered"
    /\ ret.next <= Len(ret.params)
    /\ ret.params[ret.next].type = "AssignmentPattern" => ret.inside
    /\ LET annotation == Visited.typeAnnotation
           above == IF ret.inside THEN ret.params[ret.next] ELSE call.node
           After(replaced) ==
               LET typed == [Visited EXCEPT !.typeAnnotation = replaced.node]
                   visited == IF replaced.optional
                                 THEN [typed EXCEPT !.optional = TRUE]
                                 ELSE typed
               IN  IF Thrown(replaced.node)
                      THEN [kind |-> "thrown", node |-> replaced.node]
                      ELSE [ret EXCEPT
                                !.params[ret.next] =
                                    IF @.type = "AssignmentPattern"
                                       THEN [@ EXCEPT !.left = visited]
                                       ELSE visited,
                                !.next = @ + 1, !.inside = FALSE]
       IN  IF annotation = Null \/ annotation.type # "TypeAnnotation"
              THEN ret' = [ret EXCEPT !.next = @ + 1, !.inside = FALSE]
              ELSE ret' = After(TypeAnnotation(<<annotation, Visited, above>>))
    /\ UNCHANGED <<call, reporter, primaryVars, fileVars, oracleVars,
                   toWorker, toPrimary, worker, active>>

\* FunctionDeclaration.exit, or nothing for the other functions
ExitFunction ==
    /\ ret.kind = "entered"
    /\ ret.next > Len(ret.params)
    /\ ret' = [kind |-> "exited",
               params |-> IF call.node.type = "FunctionDeclaration"
                             THEN FunctionDeclarationExit(ret.params)
                             ELSE ret.params]
    /\ UNCHANGED <<call, reporter, primaryVars, fileVars, oracleVars,
                   toWorker, toPrimary, worker, active>>

\* the visitor TypeAnnotation on an annotation outside a parameter list
VisitTypeAnnotation ==
    /\ call.fn = "TypeAnnotation"
    /\ ret.kind = "none"
    /\ ret' = [kind |-> "annotated"] @@ TypeAnnotation(call.path)
    /\ UNCHANGED <<call, reporter, primaryVars, fileVars, oracleVars,
                   toWorker, toPrimary, worker, active>>

NextParams ==
    \/ EnterFunction
    \/ VisitAssignmentPattern
    \/ VisitParam
    \/ ExitFunction
    \/ VisitTypeAnnotation

SpecParams == InitParams /\ [][NextParams]_vars

\* ----------------------------------------------------- findJsFilesAsync
MaxLines == 2       \* most lines that git ls-files prints

\* text.split('\n')
Split(text) ==
    LET breaks == {k \in 1..Len(text) : text[k] = "\n"}
        n == Cardinality(breaks)
        Break[j \in 0..(n + 1)] ==
            IF j = 0 THEN 0
            ELSE IF j = n + 1 THEN Len(text) + 1
            ELSE CHOOSE k \in breaks : Cardinality({o \in breaks : o < k}) = j - 1
    IN  [j \in 1..(n + 1) |-> SubSeq(text, Break[j - 1] + 1, Break[j] - 1)]

\* path.join(rootDirectory, chunkLine)
Join(rootDirectory, chunkLine) == rootDirectory \o <<"/">> \o chunkLine

\* the listener of stdout 'data': every line of the chunk but the last is a
\* file path, the first one after the buffer; the last part is the buffer
\* for the next chunk
OnData(rootDirectory, chunkLineBuffer, filePaths, chunk) ==
    LET chunkLines == Split(chunk)
        chunkLine(n) == IF n = 1 THEN chunkLineBuffer \o chunkLines[1]
                        ELSE chunkLines[n]
        IsJs(line) == EndsWith(line, <<".", "j", "s">>)
        After[n \in 0..(Len(chunkLines) - 1)] ==
            IF n = 0 THEN filePaths
            ELSE IF IsJs(chunkLine(n))
               THEN Append(After[n - 1], Join(rootDirectory, chunkLine(n)))
            ELSE After[n - 1]
    IN  [chunkLineBuffer |-> chunkLines[Len(chunkLines)],
         filePaths |-> After[Len(chunkLines) - 1]]

\* what git ls-files prints: at most MaxLines paths, each followed by a new
\* line, and the same output cut before its last new line
LsFilesOutputs ==
    LET paths == {<<"a", ".", "j", "s">>, <<"b", ".", "j", "s">>, <<"c">>}
        Printed[lines \in SeqsUpTo(paths, MaxLines)] ==
            IF lines = <<>> THEN <<>>
            ELSE Printed[SubSeq(lines, 1, Len(lines) - 1)]
                     \o lines[Len(lines)] \o <<"\n">>
        printed == {Printed[lines] : lines \in SeqsUpTo(paths, MaxLines)}
    IN  printed \cup {SubSeq(text, 1, Len(text) - 1) : text \in printed \ {<<>>}}

\* cp.spawn('git', ['ls-files'], {cwd: rootDirectory}): nothing is read yet
InitFind ==
    /\ NoRun
    /\ \E stdout \in LsFilesOutputs :
          call = [fn |-> "findJsFilesAsync", rootDirectory |-> <<"r">>,
                  stdout |-> stdout]
    /\ ret = [kind |-> "pending", unread |-> call.stdout,
              chunkLineBuffer |-> <<>>, filePaths |-> <<>>]
    /\ reporter = [w \in Workers |-> <<>>]

\* stdout 'data': the stream hands over the next chunk, of any length
StdoutData ==
    /\ call.fn = "findJsFilesAsync"
    /\ ret.kind = "pending"
    /\ \E n \in 1..Len(ret.unread) :
          ret' = [kind |-> "pending",
                  unread |-> SubSeq(ret.unread, n + 1, Len(ret.unread))]
                 @@ OnData(call.rootDirectory, ret.chunkLineBuffer,
                           ret.filePaths, SubSeq(ret.unread, 1, n))
    /\ UNCHANGED <<call, reporter, primaryVars, fileVars, oracleVars,
                   toWorker, toPrimary, worker, active>>

\* stdout 'end'
StdoutEnd ==
    /\ call.fn = "findJsFilesAsync"
    /\ ret.kind = "pending"
    /\ ret.unread = <<>>
    /\ ret' = IF ret.chunkLineBuffer # <<>>
                 THEN [kind |-> "rejected", error |-> ret.chunkLineBuffer]
                 ELSE [kind |-> "resolved", filePaths |-> ret.filePaths]
    /\ UNCHANGED <<call, reporter, primaryVars, fileVars, oracleVars,
                   toWorker, toPrimary, worker, active>>

NextFind == StdoutData \/ StdoutEnd

SpecFind == InitFind /\ [][NextFind]_vars

\* ================================================================ claims
Spawned == 1..i

Discovered == Range(flowFilePathsCopy)

Reported(w) == \E k \in 1..Len(reports) : reports[k] = w

Written(f) == output[f] = "ts"

ReportRequested(w) == \E k \in 1..Len(sendLog[w]) : sendLog[w][k] = ReportRequest

AllReportRequested ==
    /\ primary # "spawning"
    /\ \A w \in Spawned : ReportRequested(w)

\* C1 (stated as the claim): when the run ends after every spawned worker
\* has reported, the primary has merged the reports and rendered the summary.
C1_MergedOnceAllReported ==
    (primary = "exited" /\ i >= 1 /\ \A w \in Spawned : Reported(w))
        => finishPc = "merged"

Outstanding(w) ==
    Cardinality(active[w]) +
    Cardinality({k \in 1..Len(toWorker[w]) : toWorker[w][k].type = "batch"})

\* C3: the first message to a worker is a batch and every later message
\* answers one 'next' of that worker; a worker has at most one outstanding
\* batch; the report request is sent only when no batch remains and is the
\* last message sent; a worker is killed only after its report was stored.
C3_SessionProtocol ==
    \A w \in Workers :
        /\ Len(sendLog[w]) <= nextCount[w] + 1
        /\ (sendLog[w] # <<>> => sendLog[w][1].type = "batch")
        /\ Outstanding(w) <= 1
        /\ \A k \in 1..Len(sendLog[w]) :
              sendLog[w][k] = ReportRequest =>
                  k = Len(sendLog[w])
        /\ (ReportRequested(w) => flowFilePaths = <<>>)
        /\ (worker[w] = "killed" => Reported(w))

C3_Witness ==
    \E w \in Workers :
        /\ worker[w] = "killed"
        /\ Len(sendLog[w]) >= 3
        /\ nextCount[w] >= 2

\* C4: an original file is deleted only when every spawned worker has
\* delivered its report.
C4_DeleteOnlyAfterAllReports ==
    (\E f \in Discovered : ~original[f]) =>
        (primary # "spawning" /\ \A w \in Spawned : Reported(w))

C4_Witness ==
    /\ \E f \in Discovered : ~original[f]
    /\ i >= 2
    /\ \A w \in Spawned : Reported(w)

\* C5 (stated as the claim): a deleted original has its rewritten output,
\* and a file whose processing failed keeps its original.
C5_DeletedOnlyIfRewritten ==
    \A f \in Discovered :
        /\ ~original[f] => Written(f)
        /\ f \in errored => original[f]

\* file f was dispatched and the batch it was in has been answered
Answered(f) ==
    /\ dispatched[f] >= 1
    /\ \A w \in Workers : \A b \in active[w] : f \notin Range(b)
    /\ \A w \in Workers : \A k \in 1..Len(toWorker[w]) :
          toWorker[w][k].type = "batch" => f \notin Range(toWorker[w][k].batch)

\* C6: a per-file error settles that file only: no worker exits, an errored
\* file never blocks the batch promise, and once a batch is answered with
\* 'next' each of its files that raised no error is written.
C6_ErrorFatalToFileOnly ==
    /\ \A w \in Workers : worker[w] # "exited"
    /\ \A f \in Files : errorAt[f] # "none" => (filePc[f] = "done" /\ ~Written(f))
    /\ \A f \in Files : (errorAt[f] = "none" /\ Answered(f)) => Written(f)

C6_Witness ==
    \E w \in Workers : \E k \in 1..Len(sendLog[w]) :
        /\ sendLog[w][k].type = "batch"
        /\ nextCount[w] >= k
        /\ \E f, g \in Range(sendLog[w][k].batch) :
              f \in errored /\ g \notin errored /\ Written(g)

\* C8 (stated as the claim): once a worker's batch promise has rejected, the
\* primary does not exit with status zero.
C8_RejectionFailsRun ==
    (primary = "exited" /\ \E w \in Workers : worker[w] = "exited")
        => exitCode # 0

\* the entries of the events of one kind in the log of worker w, in order
RECURSIVE EventsOf(_, _)
EventsOf(log, kind) ==
    IF log = <<>> THEN <<>>
    ELSE IF Head(log)[1] = kind
            THEN <<Head(log)[2]>> \o EventsOf(Tail(log), kind)
            ELSE EventsOf(Tail(log), kind)

IsPrefix(a, b) ==
    /\ Len(a) <= Len(b)
    /\ \A k \in 1..Len(a) : a[k] = b[k]

\* C7 (stated as the claim): a file one of whose oracle queries failed, and
\* whose read, traversal and write raised no error, is written once it has
\* settled.
C7_OracleFailureNotFatal ==
    \A f \in Discovered :
        ( /\ filePc[f] = "done"
          /\ \E e \in QueriesOf(f) : query[e] = "rejected"
          /\ errorAt[f] \notin {"read", "traverse", "write"} )
        => Written(f)

\* C9: in each worker at most one external oracle call is in flight.
C9_OneCallInFlight ==
    \A w \in Workers : Cardinality(inFlight[w]) <= 1

C9_Witness ==
    \E w \in Workers :
        /\ Cardinality(inFlight[w]) = 1
        /\ Len(flowTypeAtPosQueue[w]) >= 1
        /\ \E e \in Entries : query[e] = "rejected"
        /\ \E e \in Range(flowTypeAtPosQueue[w]) : \A o \in inFlight[w] : e[1] # o[1]

\* C10: in each worker the external calls are dispatched in the order in
\* which the requests were enqueued, and the requests are settled in that
\* same order.
C10_QueueIsFifo ==
    \A w \in Workers :
        /\ IsPrefix(EventsOf(oracleLog[w], "dispatch"), enqueued[w])
        /\ IsPrefix(EventsOf(oracleLog[w], "settle"),
                    EventsOf(oracleLog[w], "dispatch"))

C10_Witness ==
    \E w \in Workers :
        /\ Len(EventsOf(oracleLog[w], "settle")) >= 3
        /\ \E e, o \in Range(EventsOf(oracleLog[w], "settle")) : e[1] # o[1]
        /\ \E k \in 2..Len(oracleLog[w]) :
              oracleLog[w][k][1] = "dispatch" /\ oracleLog[w][k - 1][1] = "settle"

\* C11: when the external call of an entry completes while another request
\* is queued, the call of the first queued request is dispatched before the
\* completed entry is resolved or rejected (and so before its raw answer is
\* parsed by the caller's continuation).
C11_NextDispatchedBeforeSettle ==
    [][\A w \in Workers : \A e \in Entries :
          ( /\ e \in inFlight[w]
            /\ e \notin inFlight'[w]
            /\ flowTypeAtPosQueue[w] # <<>> )
          => oracleLog'[w] = oracleLog[w] \o
                 << <<"dispatch", Head(flowTypeAtPosQueue[w])>>, <<"settle", e>> >>]_vars

C11_Witness ==
    \E w \in Workers : \E k \in 2..Len(oracleLog[w]) :
        /\ oracleLog[w][k][1] = "settle"
        /\ oracleLog[w][k - 1][1] = "dispatch"
        /\ oracleLog[w][k - 1][2] # oracleLog[w][k][2]
        /\ query[oracleLog[w][k][2]] = "rejected"

BagOf(xs) == [x \in Range(xs) |-> Cardinality({k \in 1..Len(xs) : xs[k] = x})]

AsMap(m) == {<<m[k].modulePath, m[k].count>> : k \in 1..Len(m)}

SameReport(a, b) ==
    /\ \A k \in ArrayCategories : BagOf(a[k]) = BagOf(b[k])
    /\ AsMap(a.requireWasDestructed) = AsMap(b.requireWasDestructed)
    /\ Range(a.unableToLoadExternalModule) = Range(b.unableToLoadExternalModule)

Permuted(xs, p) == [k \in 1..Len(xs) |-> xs[p[k]]]

\* C13: the merged report does not depend on the order of the reports: merging
\* any permutation of the list that was merged gives the same findings in
\* every category (arrays as multisets, the counts as a map, the set as a
\* set).
C13_MergeOrderIndependent ==
    ret.kind = "report" =>
        \A p \in Shuffles(Len(call.reports)) :
            SameReport(mergeReports(Permuted(call.reports, p)), ret.report)

C13_Witness ==
    /\ ret.kind = "report"
    /\ \E k \in ArrayCategories :
          /\ \A n \in 1..Len(call.reports) : Len(call.reports[n][k]) <= 1
          /\ Len(ret.report[k]) = 2
          /\ ret.report[k][1] # ret.report[k][2]

\* the sum of the counts that the reports rs give for modulePath
RECURSIVE CountOver(_, _)
CountOver(rs, modulePath) ==
    IF rs = <<>> THEN 0
    ELSE MapGet(Head(rs).requireWasDestructed, modulePath)
            + CountOver(Tail(rs), modulePath)

EntriesFor(m, modulePath) == {k \in 1..Len(m) : m[k].modulePath = modulePath}

\* C14: in the merged report requireWasDestructed holds, for each module
\* path, one entry with the sum of its counts over the merged reports (and no
\* entry for a path no report counts); merging the merge of the first reports
\* with the merge of the others gives the same counts.
C14_CountsAreSummed ==
    ret.kind = "report" =>
        /\ \A p \in ModulePaths :
              LET merged == ret.report.requireWasDestructed
                  total  == CountOver(call.reports, p)
              IN  IF total = 0 THEN EntriesFor(merged, p) = {}
                  ELSE /\ Cardinality(EntriesFor(merged, p)) = 1
                       /\ MapGet(merged, p) = total
        /\ \A n \in 0..Len(call.reports) :
              AsMap(mergeReports(
                  << mergeReports(SubSeq(call.reports, 1, n)),
                     mergeReports(SubSeq(call.reports, n + 1, Len(call.reports))) >>
                  ).requireWasDestructed)
                = AsMap(ret.report.requireWasDestructed)

C14_Witness ==
    /\ ret.kind = "report"
    /\ \E p \in ModulePaths :
          /\ MapGet(ret.report.requireWasDestructed, p) = 2
          /\ \E a, b \in 1..Len(call.reports) :
                /\ a # b
                /\ MapGet(call.reports[a].requireWasDestructed, p) = 1
                /\ MapGet(call.reports[b].requireWasDestructed, p) = 1

\* the categories of a report, and the line a finding is printed as
Categories == ArrayCategories \cup {"requireWasDestructed", "unableToLoadExternalModule"}

LineOf(k, x) ==
    IF k \in {"skippedLargeFiles", "unableToLoadExternalModule"}
       THEN Relative(CWD, x)
    ELSE IF k = "cannotFindModule"
       THEN [moduleId |-> x.moduleId, location |-> displayLocation(x.location)]
    ELSE IF k = "requireWasDestructed" THEN x
    ELSE displayLocation(x)

LocationOf(k, x) ==
    IF k = "cannotFindModule" THEN displayLocation(x.location)
    ELSE displayLocation(x)

Allowlisted(k, x) ==
    k \in AllowlistCategories /\ LocationOf(k, x) \in call.allowlists[k]

\* the lines printed under the block of category k
LinesOf(blocks, k) ==
    UNION {Range(blocks[n].lines) :
              n \in {b \in 1..Len(blocks) : blocks[b].category = k}}

Suppression(k) ==
    \A n \in 1..Len(ret.report[k]) :
        LET x == ret.report[k][n]
        IN  IF Allowlisted(k, x)
               THEN LineOf(k, x) \notin LinesOf(ret.blocks, k)
               ELSE LineOf(k, x) \in LinesOf(ret.blocks, k)

\* the categories whose findings are Locations
LocationCategories == ArrayCategories \ {"skippedLargeFiles"}

\* C15 as stated, for every category of findings with a location: an
\* allowlisted finding is not printed and every other finding is.
C15_EveryCategory ==
    ret.kind = "printed" => \A k \in LocationCategories : Suppression(k)

\* logReport has no block for these two (both are commented out)
NotPrinted == {"requireWasDestructed", "importAfterSideEffects"}

\* C15 (amended): for every category that logReport prints, an allowlisted
\* finding is not printed and every other finding is, however many findings
\* the category has; nothing is printed for requireWasDestructed and
\* importAfterSideEffects.
C15_PrintedCategories ==
    ret.kind = "printed" =>
        /\ \A k \in Categories \ NotPrinted : Suppression(k)
        /\ \A k \in NotPrinted : LinesOf(ret.blocks, k) = {}

C15_Witness ==
    /\ ret.kind = "printed"
    /\ \E k \in AllowlistCategories \ NotPrinted :
          /\ Len(ret.report[k]) >= 2
          /\ \E n \in 1..Len(ret.report[k]) : Allowlisted(k, ret.report[k][n])
          /\ \E n \in 1..Len(ret.report[k]) : ~Allowlisted(k, ret.report[k][n])
          /\ LinesOf(ret.blocks, k) # {}

\* C16: the stall timer of a worker is armed by every batch sent to it and
\* cleared by every message received from it; its expiry changes nothing but
\* the timer (no file leaves or enters the queue, no report is stored, no
\* message is sent, no worker is killed, no file is deleted); and a 'next'
\* received after an expiry is answered with a batch or the report request,
\* as any other.
C16_StallTimerAdvisory ==
    [][\A w \in Workers :
          /\ ( Len(sendLog'[w]) > Len(sendLog[w])
                /\ sendLog'[w][Len(sendLog'[w])].type = "batch" )
              => timeoutId'[w] = "armed"
          /\ ( Len(toPrimary'[w]) < Len(toPrimary[w])
                /\ Len(sendLog'[w]) = Len(sendLog[w]) + 1
                /\ sendLog'[w][Len(sendLog'[w])].type = "report" )
              => timeoutId'[w] = "null"
          /\ ( Len(toPrimary'[w]) < Len(toPrimary[w])
                /\ Len(sendLog'[w]) = Len(sendLog[w]) )
              => timeoutId'[w] = "null"
          /\ ( timeoutId[w] = "armed" /\ timeoutId'[w] = "fired" )
              => UNCHANGED <<flowFilePaths, flowFilePathsCopy, reports, toWorker,
                             toPrimary, worker, sendLog, dispatched, nextCount,
                             finishPc, original, primary, exitCode>>
          /\ ( timeoutId[w] = "fired" /\ nextCount'[w] = nextCount[w] + 1 )
              => /\ Len(sendLog'[w]) = Len(sendLog[w]) + 1
                 /\ toWorker'[w] = Append(toWorker[w], sendLog'[w][Len(sendLog'[w])])
                 /\ timeoutId'[w] =
                       IF sendLog'[w][Len(sendLog'[w])].type = "batch"
                          THEN "armed" ELSE "null"
                 /\ worker'[w] = worker[w]]_vars

C16_Witness ==
    \E w \in Workers :
        /\ timeoutId[w] = "fired"
        /\ worker[w] = "alive"
        /\ toPrimary[w] # <<>>
        /\ Head(toPrimary[w]).type = "next"
        /\ flowFilePaths # <<>>

\* the tree of f has been printed (recast.print, then fs.writeFile)
Printed(f) ==
    \/ filePc[f] = "writing"
    \/ output[f] # "none"
    \/ filePc[f] = "done" /\ errorAt[f] = "write"

\* C17: a file is printed and written only once its traversal is over and
\* every oracle query issued for it has resolved; once it is printed no query
\* of it settles any more (so no annotation reaches the tree afterwards), it
\* is not printed again, and what was written stays.
C17_WriteAfterAllQueries ==
    /\ [](\A f \in Files : Printed(f) =>
             /\ filePc[f] \notin {"none", "reading", "migrating"}
             /\ \A e \in QueriesOf(f) : query[e] = "resolved")
    /\ [][\A f \in Files : Printed(f) =>
             /\ Printed(f)'
             /\ filePc'[f] # filePc[f] => filePc[f] = "writing" /\ filePc'[f] = "done"
             /\ output[f] # "none" => output'[f] = output[f]
             /\ \A e \in Entries : e[1] = f => query'[e] = query[e]]_vars

C17_Witness ==
    \E f, g \in Files :
        /\ f # g
        /\ output[f] = "ts"
        /\ nParams[f] = 2
        /\ query[<<g, 1>>] = "pending"

\* ---------------------------------------------------------------- C18
\* the kinds of t.FlowType and of the members of an object type
FlowKinds ==
    {"AnyTypeAnnotation", "ArrayTypeAnnotation", "BooleanTypeAnnotation",
     "BooleanLiteralTypeAnnotation", "NullLiteralTypeAnnotation",
     "ExistsTypeAnnotation", "FunctionTypeAnnotation", "GenericTypeAnnotation",
     "InterfaceTypeAnnotation", "IntersectionTypeAnnotation",
     "MixedTypeAnnotation", "EmptyTypeAnnotation", "NullableTypeAnnotation",
     "NumberLiteralTypeAnnotation", "NumberTypeAnnotation",
     "ObjectTypeAnnotation", "StringLiteralTypeAnnotation",
     "StringTypeAnnotation", "ThisTypeAnnotation", "TupleTypeAnnotation",
     "TypeofTypeAnnotation", "UnionTypeAnnotation", "VoidTypeAnnotation"}

MemberKinds ==
    {"ObjectTypeProperty", "ObjectTypeIndexer", "ObjectTypeCallProperty",
     "ObjectTypeInternalSlot"}

\* the kinds of the TypeScript type grammar and of its type elements
TSKinds ==
    {"TSAnyKeyword", "TSArrayType", "TSBooleanKeyword", "TSLiteralType",
     "TSNullKeyword", "TSUndefinedKeyword", "TSTypeReference", "TSFunctionType",
     "TSTypeOperator", "TSIndexedAccessType", "TSIntersectionType",
     "TSUnknownKeyword", "TSNeverKeyword", "TSUnionType", "TSNumberKeyword",
     "TSTypeLiteral", "TSParenthesizedType", "TSStringKeyword", "TSThisType",
     "TSTupleType", "TSTypeQuery", "TSVoidKeyword"}

TSMemberKinds == {"TSPropertySignature", "TSMethodSignature", "TSIndexSignature"}

ErrorMessages ==
    {"Unsupported AST node", "Unexpected AST node", "Unrecognized AST node",
     "Unexpected type parameters on typeof argument.",
     "Unsupported object type property kind",
     "Did not expect any Flow properties with proto set to true.",
     "Did not expect any Flow properties with static set to true."}

NotNull(nodes) == SelectSeq(nodes, LAMBDA node : node # Null)

SignatureTypes(tsNode) ==
    (IF tsNode.typeParameters = Null THEN <<>>
     ELSE NotNull([k \in 1..Len(tsNode.typeParameters.params) |->
                       tsNode.typeParameters.params[k].constraint]
                  \o [k \in 1..Len(tsNode.typeParameters.params) |->
                          tsNode.typeParameters.params[k].default]))
    \o [k \in 1..Len(tsNode.parameters) |->
            tsNode.parameters[k].typeAnnotation.typeAnnotation]
    \o <<tsNode.typeAnnotation.typeAnnotation>>

\* the types and type elements directly inside a migrated node
TypesInside(tsNode) ==
    CASE tsNode.type = "TSArrayType" -> <<tsNode.elementType>>
      [] tsNode.type = "TSTypeReference" ->
            IF tsNode.typeParameters = Null THEN <<>>
            ELSE tsNode.typeParameters.params
      [] tsNode.type \in {"TSFunctionType", "TSMethodSignature"} ->
            SignatureTypes(tsNode)
      [] tsNode.type \in {"TSTypeOperator", "TSParenthesizedType"} ->
            <<tsNode.typeAnnotation>>
      [] tsNode.type = "TSIndexedAccessType" ->
            <<tsNode.objectType, tsNode.indexType>>
      [] tsNode.type \in {"TSIntersectionType", "TSUnionType"} -> tsNode.types
      [] tsNode.type = "TSTupleType" -> tsNode.elementTypes
      [] tsNode.type = "TSTypeLiteral" -> tsNode.members
      [] tsNode.type = "TSPropertySignature" ->
            <<tsNode.typeAnnotation.typeAnnotation>>
      [] tsNode.type = "TSIndexSignature" ->
            <<tsNode.parameters[1].typeAnnotation.typeAnnotation,
              tsNode.typeAnnotation.typeAnnotation>>
      [] OTHER -> <<>>

RECURSIVE InTargetGrammar(_)
InTargetGrammar(tsNode) ==
    /\ tsNode.type \in TSKinds \cup TSMemberKinds
    /\ \A k \in 1..Len(TypesInside(tsNode)) :
          InTargetGrammar(TypesInside(tsNode)[k])

\* the members of a migrated object type: the elements of its literals, its
\* spreads, and the indexer that became h.ObjectMap
MembersOut(tsNode) ==
    LET Count(part) == IF part.type = "TSTypeLiteral" THEN Len(part.members) ELSE 1
        Sum[k \in 0..8] ==
            IF k = 0 THEN 0 ELSE Sum[k - 1] + Count(tsNode.types[k])
    IN  IF tsNode.type = "TSIntersectionType" THEN Sum[Len(tsNode.types)]
        ELSE Count(tsNode)

MembersIn(flowType) ==
    Len(flowType.properties) + Len(flowType.indexers)
        + Len(flowType.callProperties) + Len(flowType.internalSlots)

Raised(node) == Thrown(node) /\ node.message[1] \in ErrorMessages

\* C18: for every kind of Flow type and every kind of object type member,
\* migration either raises an error or returns a node of the TypeScript
\* grammar whose nested types are all of the TypeScript grammar too: a type
\* kind becomes a type, a member kind a type element, no Flow node is passed
\* through, a kind that the migration does not name raises, and a migrated
\* object type keeps every one of its members.
C18_Exhaustive ==
    ret.kind = "migrated" =>
        \/ Raised(ret.node)
        \/ /\ call.fn = "migrateType" => call.flowType.type \in FlowKinds
           /\ call.fn = "migrateObjectMember" => call.flowMember.type \in MemberKinds
           /\ InTargetGrammar(ret.node)
           /\ call.fn = "migrateType" => ret.node.type \in TSKinds
           /\ call.fn = "migrateObjectMember" => ret.node.type \in TSMemberKinds
           /\ (call.fn = "migrateType" /\ call.flowType.type = "ObjectTypeAnnotation")
                 => MembersOut(ret.node) = MembersIn(call.flowType)

\* an object type with two properties or spreads and an indexer is migrated
\* to an intersection
C18_Witness ==
    /\ ret.kind = "migrated"
    /\ call.fn = "migrateType"
    /\ call.flowType.type = "ObjectTypeAnnotation"
    /\ Len(call.flowType.properties) = 2
    /\ Len(call.flowType.indexers) = 1
    /\ ret.node.type = "TSIntersectionType"

\* ---------------------------------------------------------------- C19
\* the cast that is visited and the type it casts to
Cast == Head(call.path)

CastTo == Cast.typeAnnotation.typeAnnotation

SafeCast(expression, tsType) ==
    [type |-> "CallExpression",
     callee |-> [type |-> "MemberExpression", object |-> Identifier("u"),
                 property |-> Identifier("cast")],
     arguments |-> <<expression>>,
     typeParameters |-> tsTypeParameterInstantiation(<<tsType>>)]

ThroughAny ==
    /\ Cast.expression.type = "TypeCastExpression"
    /\ Cast.expression.typeAnnotation.typeAnnotation.type = "AnyTypeAnnotation"

\* the expression is a cast to Object or Function, with or without type
\* arguments
ThroughObjectOrFunction ==
    /\ Cast.expression.type = "TypeCastExpression"
    /\ LET inner == Cast.expression.typeAnnotation.typeAnnotation
       IN  /\ inner.type = "GenericTypeAnnotation"
           /\ inner.id.type = "Identifier"
           /\ inner.id.name \in {"Object", "Function"}

\* the cast is the value of an object property inside createReactClass()
ReactClassProperty ==
    /\ call.path[2].type = "ObjectProperty"
    /\ \E k \in 3..Len(call.path) :
          /\ call.path[k].type = "CallExpression"
          /\ call.path[k].callee.name = "createReactClass"

\* the outcome of the priority list for the visited cast, `nested` being
\* what `((x: any): T)` becomes
Outcome(nested) ==
    LET x == Cast.expression
        T == migrateType(CastTo)
    IN  IF ThroughAny THEN nested
        ELSE IF CastTo.type = "AnyTypeAnnotation"
           THEN tsAsExpression(x, [type |-> "TSAnyKeyword"])
        ELSE IF /\ x.type \in {"StringLiteral", "NumericLiteral"}
                /\ CastTo.type \in {"StringLiteralTypeAnnotation",
                                    "NumberLiteralTypeAnnotation"}
                /\ (x.type = "StringLiteral")
                       = (CastTo.type = "StringLiteralTypeAnnotation")
                /\ x.value = CastTo.value
           THEN tsAsExpression(x, tsTypeReference(Identifier("const"), Null))
        ELSE IF Thrown(T) THEN T
        ELSE IF isComplexLiteral(x) THEN tsAsExpression(x, T)
        ELSE SafeCast(x, T)

ThroughUnsoundName ==
    /\ ThroughObjectOrFunction
    /\ Cast.expression.typeAnnotation.typeAnnotation.typeParameters = Null

\* C20: a nested cast through Object or Function, `((x: Object): T)` or
\* `((x: Function): T)`, becomes the direct cast `(x as T)` that
\* `((x: any): T)` becomes (outside the object properties of
\* createReactClass(), where the inner cast is kept).
C20_ThroughUnsoundIsDirect ==
    (ret.kind = "replaced" /\ ThroughUnsoundName /\ ~ReactClassProperty) =>
        LET T == migrateType(CastTo)
        IN  ret.node = IF Thrown(T) THEN T
                       ELSE tsAsExpression(Cast.expression.expression, T)

\* ---------------------------------------------------------------- C21
\* the visited cast fell back to the safe-cast helper
FellBack ==
    /\ ret.kind = "replaced"
    /\ ret.node.type = "CallExpression"
    /\ ret.node.callee.type = "MemberExpression"
    /\ ret.node.callee.property.name = "cast"

\* the calls of reporter.unsupportedTypeCast made by the visitor
UnsupportedTypeCasts ==
    {k \in 1..Len(ret.reported) : ret.reported[k][1] = "unsupportedTypeCast"}

\* C21: every cast that falls back to the safe-cast helper is recorded as a
\* Finding of the category unsupported type cast, one Finding per fallback
\* cast emitted.
C21_FallbackIsRecorded ==
    FellBack => Cardinality(UnsupportedTypeCasts) = 1

\* ---------------------------------------------------------------- C22
\* the identifier of a parameter and whether it is marked optional
IdentifierOf(param) ==
    IF param.type = "AssignmentPattern" THEN param.left ELSE param

MarkedOptional(param) ==
    IdentifierOf(param).type = "Identifier" /\ IdentifierOf(param).optional

\* the parameter is neither optional nor defaulted
Required(param) ==
    param.type # "AssignmentPattern" /\ ~MarkedOptional(param)

\* the type of a rewritten parameter, Null without an annotation
TSTypeOf(param) ==
    IF IdentifierOf(param).typeAnnotation = Null THEN Null
    ELSE IdentifierOf(param).typeAnnotation.typeAnnotation

AcceptsUndefined(tsType) ==
    /\ tsType.type = "TSUnionType"
    /\ tsType.types # <<>>
    /\ tsType.types[Len(tsType.types)].type = "TSUndefinedKeyword"

\* what the annotation visitor and the visitor of defaults left, before the
\* function is exited: the parameters that were optional then
OptionalBefore(k) ==
    LET param == IF call.node.type = "FunctionDeclaration"
                    THEN FunctionDeclarationEnter(call.node.params,
                                                  call.isTestFile)[k]
                    ELSE call.node.params[k]
        flowType == IF IdentifierOf(param).typeAnnotation = Null THEN Null
                    ELSE IF IdentifierOf(param).typeAnnotation.type
                                # "TypeAnnotation" THEN Null
                    ELSE IdentifierOf(param).typeAnnotation.typeAnnotation
    IN  /\ IdentifierOf(param).type = "Identifier"
        /\ \/ IdentifierOf(param).optional /\ param.type # "AssignmentPattern"
           \/ flowType.type = "NullableTypeAnnotation"
           \/ /\ flowType.type = "UnionTypeAnnotation"
              /\ \E n \in 1..Len(flowType.types) :
                    flowType.types[n].type = "VoidTypeAnnotation"

\* C22: in every rewritten parameter list, of a function declaration, class
\* method, object method or function expression, no parameter marked
\* optional stands before a parameter that is neither optional nor
\* defaulted; an optional parameter with a later required one has lost its
\* mark and has undefined added to its type.
C22_NoOptionalBeforeRequired ==
    ret.kind = "exited" =>
        \A j \in 1..Len(ret.params) : \A k \in (j + 1)..Len(ret.params) :
            Required(ret.params[k]) =>
                /\ ~MarkedOptional(ret.params[j])
                /\ (OptionalBefore(j) /\ TSTypeOf(ret.params[j]) # Null)
                       => AcceptsUndefined(TSTypeOf(ret.params[j]))

\* ---------------------------------------------------------------- C23
\* the parameter as written carries an absence marker: `a?`, `a: ?T` or
\* `a: T | void`
HasAbsenceMarker(param) ==
    /\ param.type = "Identifier"
    /\ \/ param.optional
       \/ /\ param.typeAnnotation # Null
          /\ LET flowType == param.typeAnnotation.typeAnnotation
             IN  \/ flowType.type = "NullableTypeAnnotation"
                 \/ /\ flowType.type = "UnionTypeAnnotation"
                    /\ \E n \in 1..Len(flowType.types) :
                          flowType.types[n].type = "VoidTypeAnnotation"

\* the parameter as written is not optional: no marker and no default
NonOptional(param) ==
    param.type # "AssignmentPattern" /\ ~HasAbsenceMarker(param)

\* the strict prefixes p1..pk of the traversed list that carry the markers,
\* p(k+1)..pn being non-optional
MarkedPrefixes ==
    {k \in 1..(Len(call.node.params) - 1) :
        /\ \A j \in 1..k : HasAbsenceMarker(call.node.params[j])
        /\ \A j \in (k + 1)..Len(call.node.params) :
              NonOptional(call.node.params[j])}

\* C23 as stated: the rewritten list marks exactly p1..pk optional
C23_PrefixStaysOptional ==
    ret.kind = "exited" =>
        \A k \in MarkedPrefixes : \A j \in 1..Len(ret.params) :
            MarkedOptional(ret.params[j]) <=> j <= k

\* C23 (amended): for a parameter list of a function declaration whose
\* parameters p1..pk (a strict prefix, k < n) carry absence markers and whose
\* parameters p(k+1)..pn are non-optional, the rewritten list marks no
\* parameter optional: each of p1..pk that has a type has undefined added
\* to it.
C23_PrefixBecomesRequired ==
    (ret.kind = "exited" /\ call.node.type = "FunctionDeclaration") =>
        \A k \in MarkedPrefixes :
            /\ \A j \in 1..Len(ret.params) : ~MarkedOptional(ret.params[j])
            /\ \A j \in 1..k :
                  TSTypeOf(ret.params[j]) # Null
                      => AcceptsUndefined(TSTypeOf(ret.params[j]))

\* `function f(a: ?T, b: T)` was rewritten
C23_Witness ==
    /\ ret.kind = "exited"
    /\ call.node.type = "FunctionDeclaration"
    /\ MarkedPrefixes = {1}
    /\ call.node.params[1].typeAnnotation # Null
    /\ call.node.params[1].typeAnnotation.typeAnnotation.type
           = "NullableTypeAnnotation"
    /\ ~MarkedOptional(ret.params[1])
    /\ Len(TSTypeOf(ret.params[1]).types) = 3

\* ---------------------------------------------------------------- C24
\* string | void and the like: the members of a union that are not void
WithoutVoid(flowTypes) ==
    LET NotVoid(flowType) == flowType.type # "VoidTypeAnnotation"
    IN  SelectSeq(flowTypes, NotVoid)

HasVoid(flowType) ==
    /\ flowType.type = "UnionTypeAnnotation"
    /\ WithoutVoid(flowType.types) # flowType.types

TSUnion(tsTypes) == [type |-> "TSUnionType", types |-> tsTypes]

TSNull == [type |-> "TSNullKeyword"]

\* the annotations visited so far, each as written, with whether its
\* identifier is now optional, its type now, and whether it stands on a
\* function parameter, on the identifier of a variable declarator, or on
\* the identifier of a `declare var`
Annotated ==
    IF ret.kind = "annotated" /\ ~Thrown(ret.node)
       THEN {[flowType |-> call.path[1].typeAnnotation,
              optional |-> ret.optional,
              tsType |-> ret.node.typeAnnotation,
              parameter |-> /\ call.path[2].type = "Identifier"
                            /\ call.path[3].type = "ArrowFunctionExpression",
              declarator |-> call.path[3].type = "VariableDeclarator",
              declared |-> call.path[3].type = "DeclareVariable"]}
    ELSE IF ret.kind = "entered"
       THEN {[flowType |->
                  IdentifierOf(call.node.params[k]).typeAnnotation.typeAnnotation,
              optional |-> MarkedOptional(ret.params[k]),
              tsType |-> TSTypeOf(ret.params[k]),
              parameter |-> IdentifierOf(ret.params[k]).type = "Identifier",
              declarator |-> FALSE,
              declared |-> FALSE] :
                k \in {n \in 1..(ret.next - 1) :
                          /\ TSTypeOf(call.node.params[n]) # Null
                          /\ TSTypeOf(ret.params[n]) # Null}}
    ELSE {}

\* the clauses of C24 for one visited annotation, `?void` on a parameter
\* becoming the type `alone` and a `declare var` being a position like
\* any other or not
Widened(a, alone, declaredIsOther) ==
    LET T == migrateType(a.flowType.typeAnnotation)
        other == ~a.parameter /\ (a.declared => declaredIsOther)
    IN  /\ (a.parameter /\ a.flowType.type = "NullableTypeAnnotation") =>
              /\ a.optional
              /\ a.tsType = IF T.type = "TSVoidKeyword" THEN alone
                            ELSE TSUnion(<<T, TSNull>>)
        /\ (a.parameter /\ HasVoid(a.flowType)) =>
              /\ a.optional
              /\ a.tsType = migrateType([a.flowType EXCEPT
                                            !.types = WithoutVoid(@)])
        /\ (other /\ a.flowType.type = "NullableTypeAnnotation") =>
              a.tsType = TSUnion(<<T, TSNull, [type |-> "TSUndefinedKeyword"]>>)
        /\ a.declarator => ~a.optional

ObjectAsDeclared ==
    /\ call.fn = "migrateType"
    /\ ret.kind = "migrated"
    /\ call.flowType.type = "ObjectTypeAnnotation"
    /\ \A member \in Range(call.flowType.properties \o call.flowType.indexers) :
          "column" \in DOMAIN member
    /\ call.flowType.callProperties \o call.flowType.internalSlots = <<>>

\* the members in the order in which they are declared: by line, then column
DeclarationOrder ==
    LET members == call.flowType.properties \o call.flowType.indexers
        Before(a, b) == \/ a.line < b.line
                        \/ a.line = b.line /\ a.column < b.column
    IN  [j \in 1..Len(members) |->
            CHOOSE member \in Range(members) :
                Cardinality({o \in Range(members) : Before(o, member)}) = j - 1]

\* the members of the intersection that came out, one after the other, a
\* literal member giving the members it holds
IntersectionMembers ==
    IF ret.node.type = "TSIntersectionType" THEN ret.node.types
    ELSE <<ret.node>>

MembersInOrder ==
    LET Held(tsType) == IF tsType.type = "TSTypeLiteral" THEN tsType.members
                        ELSE <<tsType>>
        Flat[k \in 0..Len(IntersectionMembers)] ==
            IF k = 0 THEN <<>>
            ELSE Flat[k - 1] \o Held(IntersectionMembers[k])
    IN  Flat[Len(IntersectionMembers)]

\* C25: an object type with spreads becomes an intersection whose members
\* follow the declaration order of the source members, for every mix of
\* properties, indexers and spreads, also when several members share a
\* line: every spread is a member of its own, the members between two
\* spreads form one literal, no two literals are adjacent, and a type
\* without spreads stays one literal.
C25_IntersectionInDeclarationOrder ==
    ObjectAsDeclared =>
        /\ MembersInOrder =
               [j \in 1..Len(DeclarationOrder) |->
                   IF DeclarationOrder[j].type = "ObjectTypeSpreadProperty"
                      THEN [type |-> "TSParenthesizedType",
                            typeAnnotation |->
                                migrateType(DeclarationOrder[j].argument)]
                      ELSE migrateObjectMember(DeclarationOrder[j])]
        /\ \A k \in 2..Len(IntersectionMembers) :
              ~(/\ IntersectionMembers[k - 1].type = "TSTypeLiteral"
                /\ IntersectionMembers[k].type = "TSTypeLiteral")
        /\ (\A j \in 1..Len(DeclarationOrder) :
                DeclarationOrder[j].type # "ObjectTypeSpreadProperty")
               => ret.node.type = "TSTypeLiteral"

\* ---------------------------------------------------------------- C26
\* the index signatures of the literals that came out of an object type
IndexSignatures ==
    UNION {{member \in Range(tsType.members) : member.type = "TSIndexSignature"} :
           tsType \in {t \in Range(IntersectionMembers) : t.type = "TSTypeLiteral"}}

\* C26: an indexer whose key type is neither string nor number becomes an
\* application of the map utility type with the key type and the value
\* type, whether it is the only member of its object type or stands beside
\* other members: no literal index signature keyed by another type comes out.
C26_NoIndexSignatureOfOtherKey ==
    (/\ call.fn = "migrateType"
     /\ ret.kind = "migrated"
     /\ call.flowType.type = "ObjectTypeAnnotation"
     /\ ~Thrown(ret.node)) =>
        \A member \in IndexSignatures :
            member.parameters[1].typeAnnotation.typeAnnotation.type
                \in {"TSStringKeyword", "TSNumberKeyword"}

\* ---------------------------------------------------------------- C27
\* C27: a union type of which one member migrates to any is flattened to
\* just any.
C27_UnionWithAnyIsAny ==
    (/\ call.fn = "migrateType"
     /\ ret.kind = "migrated"
     /\ call.flowType.type = "UnionTypeAnnotation"
     /\ ~Thrown(ret.node)
     /\ \E k \in 1..Len(call.flowType.types) :
           migrateType(call.flowType.types[k]).type = "TSAnyKeyword") =>
        ret.node = [type |-> "TSAnyKeyword"]

\* ---------------------------------------------------------------- C28
\* the lines of the output that end in .js, joined to the root directory,
\* in output order
JsFiles ==
    LET lines == Split(call.stdout)
        IsJs(line) == EndsWith(line, <<".", "j", "s">>)
        Listed[n \in 0..(Len(lines) - 1)] ==
            IF n = 0 THEN <<>>
            ELSE IF IsJs(lines[n])
               THEN Append(Listed[n - 1], Join(call.rootDirectory, lines[n]))
            ELSE Listed[n - 1]
    IN  Listed[Len(lines) - 1]

\* C28: however the output of git ls-files is split into chunks, the result
\* is the list of all lines ending in .js, each joined to the root
\* directory, in output order; the promise rejects only when the output
\* does not end with a new line.
C28_ChunksDoNotMatter ==
    call.fn = "findJsFilesAsync" =>
        /\ ret.kind = "resolved" => ret.filePaths = JsFiles
        /\ ret.kind = "rejected" => ~EndsWith(call.stdout, <<"\n">>)

\* --------------------------------------- the flowTypeAtPos queue on its own
\* The module-level queue of flow_type_at_pos.ts in one worker, driven by
\* callers that request types at any moment and by external calls that
\* complete or fail.
QueueEntries == {e \in Entries : e[1] <= MaxOracleFiles}

InitQueue == NoRun /\ NoCall

\* the order of the names of the entries
Earlier(e, o) == e[1] < o[1] \/ (e[1] = o[1] /\ e[2] < o[2])

\* a caller evaluates flowTypeAtPos(filePath, location).  The queue treats
\* all entries alike, so the requests are made in the order of their names.
RequestType(e) ==
    /\ query[e] = "none"
    /\ \A o \in QueueEntries : query[o] # "none" => Earlier(o, e)
    /\ Len(enqueued[1]) < MaxQueries
    /\ SetQ(1, FlowTypeAtPos(Q(1), e))
    /\ query' = [query EXCEPT ![e] = "pending"]
    /\ UNCHANGED <<primaryVars, fileVars, evalVars, toWorker, toPrimary,
                   worker, active, nParams>>

\* the callback of childProcess.exec runs: the promise of
\* executeFlowTypeAtPos is fulfilled or rejected and the matching callback
\* of processFlowTypeAtPosQueue runs
CallCompleted(e) ==
    /\ e \in inFlight[1]
    /\ \E result \in Outcomes :
          query' = [query EXCEPT ![e] = result]
    /\ SetQ(1, Completed(Q(1), e))
    /\ UNCHANGED <<primaryVars, fileVars, evalVars, toWorker, toPrimary,
                   worker, active, nParams>>

NextQueue ==
    \/ \E e \in QueueEntries : RequestType(e)
    \/ \E e \in QueueEntries : CallCompleted(e)

\* every external call that was started completes or fails
SpecQueue ==
    InitQueue /\ [][NextQueue]_vars
              /\ WF_vars(\E e \in QueueEntries : CallCompleted(e))

\* C29: provided every external call completes or fails, every request passed
\* to flowTypeAtPos() is dispatched and its promise settles, whether or not
\* earlier calls failed; and whenever the queue has drained (nothing queued,
\* nothing running) the processing flag is false, so a later request starts
\* processing again.
IsDispatched(e) == \E k \in 1..Len(oracleLog[1]) : oracleLog[1][k] = <<"dispatch", e>>

C29_EveryRequestSettles ==
    /\ \A e \in QueueEntries :
          (query[e] = "pending") ~> (IsDispatched(e) /\ query[e] \in Outcomes)
    /\ [](flowTypeAtPosQueue[1] = <<>> /\ inFlight[1] = {}
              => processingFlowTypeAtPosQueue[1] = FALSE)

\* a call failed while another request was waiting, that request was served,
\* and a request made after the queue had drained was dispatched at once
C29_Witness ==
    \E a \in QueueEntries, b \in QueueEntries, c \in QueueEntries :
        /\ oracleLog[1] = << <<"dispatch", a>>, <<"dispatch", b>>, <<"settle", a>>,
                             <<"settle", b>>, <<"dispatch", c>> >>
        /\ enqueued[1] = <<a, b, c>>
        /\ query[a] = "rejected"
        /\ query[b] \in Outcomes
        /\ query[c] = "pending"

\* C30: the report a worker sends is complete: when reporter.generateReport()
\* runs the worker has no file in progress and no oracle query pending, so
\* that no continuation of annotateParamsWithFlowTypeAtPos can record a
\* Finding (through migrateType(reporter, ...)) after the report was generated.
ReportGenerated(w) ==
    \E k \in 1..Len(toPrimary[w]) : toPrimary[w][k].type = "report"

InProgress(w) ==
    {f \in Files : w \in Holders(f) /\ filePc[f] \notin {"none", "done"}}

PendingQueries(w) == {e \in Range(enqueued[w]) : query[e] = "pending"}

C30_ReportIsComplete ==
    \A w \in Workers :
        ReportGenerated(w) => InProgress(w) = {} /\ PendingQueries(w) = {}

\* the part of C30 that the worker does keep: no file is in progress when
\* the report is generated
C30_NoFileInProgress ==
    \A w \in Workers : ReportGenerated(w) => InProgress(w) = {}

====
